---- MODULE Spec2Model ----
(***************************************************************************)
(* Model of the Caddy admin-API client of caddyproxymanager               *)
(* (backend/pkg/caddy/client.go), its metadata overlay store               *)
(* (backend/pkg/models) and the admin API it talks to.                     *)
(*                                                                         *)
(* Strings that the code takes apart (domains, target URLs, route          *)
(* identifiers, dial addresses, listen addresses) are sequences of tokens: *)
(* every punctuation mark the code looks for (".", ":", "_", "://", "/")   *)
(* is a token of its own and the text between two marks is one token, so   *)
(* two strings are equal exactly when their token sequences are equal.     *)
(* Strings the code only compares or copies are TLA+ strings.              *)
(***************************************************************************)
EXTENDS Integers, Sequences, FiniteSets, TLC

VARIABLES live, configFile, metadata, metadataFile, env, faults, last,
          calls, pushes, crashed, health, storage

vars == <<live, configFile, metadata, metadataFile, env, faults, last,
          calls, pushes, crashed, health, storage>>

(***************************************************************************)
(* Bounds of the model.                                                    *)
(***************************************************************************)
\* most routes a fetched tree may hold for AddProxy to be tried
MaxRoutes == 2
\* most requests or file writes that fail in one run
MaxFaults == 1
\* most health-check loops started in one run
MaxLoops == 2
\* most checks one health-check loop performs
MaxChecks == 1
\* most identifiers and tokens the auth storage generates in one run
MaxIDs == 3
\* the last reading of the clock
MaxTime == 2
\* most TLS policies a bucket may hold for a proxy to be added in SpecDNS:
\* a policy outlives the route it was written for
MaxPolicies == 2

(***************************************************************************)
(* strings.* and net.* helpers on token sequences.                         *)
(***************************************************************************)
Contains(s, tok) == \E i \in DOMAIN s : s[i] = tok

ReplaceAll(s, old, new) == [i \in DOMAIN s |-> IF s[i] = old THEN new ELSE s[i]]

HasPrefix(s, pre) ==
    /\ Len(pre) <= Len(s)
    /\ SubSeq(s, 1, Len(pre)) = pre

HasSuffix(s, suf) ==
    /\ Len(suf) <= Len(s)
    /\ SubSeq(s, Len(s) - Len(suf) + 1, Len(s)) = suf

\* index of the first occurrence of tok in s, 0 when absent
IndexOf(s, tok) ==
    IF Contains(s, tok) THEN CHOOSE i \in DOMAIN s : s[i] = tok /\ \A j \in 1..(i-1) : s[j] # tok
    ELSE 0

\* index of the last occurrence of tok in s, 0 when absent
LastIndexOf(s, tok) ==
    IF Contains(s, tok) THEN CHOOSE i \in DOMAIN s : s[i] = tok /\ \A j \in (i+1)..Len(s) : s[j] # tok
    ELSE 0

RECURSIVE Split(_, _)
Split(s, sep) ==
    IF ~Contains(s, sep) THEN <<s>>
    ELSE LET i == IndexOf(s, sep)
         IN  <<SubSeq(s, 1, i - 1)>> \o Split(SubSeq(s, i + 1, Len(s)), sep)

RECURSIVE Join(_, _)
Join(parts, sep) ==
    IF Len(parts) = 0 THEN <<>>
    ELSE IF Len(parts) = 1 THEN parts[1]
    ELSE parts[1] \o <<sep>> \o Join(Tail(parts), sep)

SliceContains(list, x) == \E i \in DOMAIN list : list[i] = x

\* the tokens that strconv/url accept as a decimal port number
DigitTokens == {"80", "443", "3000", "8080", "8443", "9801"}

\* net.SplitHostPort for names without brackets: exactly one colon is needed
SplitHostPort(hostport) ==
    LET i == LastIndexOf(hostport, ":")
    IN  IF i = 0 THEN [err |-> TRUE, host |-> <<>>, port |-> <<>>]
        ELSE IF Contains(SubSeq(hostport, 1, i - 1), ":")
             THEN [err |-> TRUE, host |-> <<>>, port |-> <<>>]
        ELSE [err |-> FALSE, host |-> SubSeq(hostport, 1, i - 1),
              port |-> SubSeq(hostport, i + 1, Len(hostport))]

\* url.Parse for scheme://host[:port][/path]; a port that is not a number
\* and a missing scheme are parse errors
urlParse(raw) ==
    LET i    == IndexOf(raw, "://")
        rest == SubSeq(raw, i + 1, Len(raw))
        k    == IndexOf(rest, "/")
        auth == IF k = 0 THEN rest ELSE SubSeq(rest, 1, k - 1)
        c    == LastIndexOf(auth, ":")
        port == IF c = 0 THEN <<>> ELSE SubSeq(auth, c + 1, Len(auth))
        host == IF c = 0 THEN auth ELSE SubSeq(auth, 1, c - 1)
    IN  [err    |-> \/ i <= 1
                    \/ (c # 0 /\ port # <<>> /\ ~(Len(port) = 1 /\ port[1] \in DigitTokens)),
         Scheme |-> SubSeq(raw, 1, i - 1),
         Host   |-> host,
         Port   |-> port]

\* the second half of parseTargetURL: the default port and the dial address
\* of the parsed URL u
targetOfURL(u, useHTTPS) ==
    LET port == IF u.Port = <<>>
                THEN (IF u.Scheme = <<"https">> THEN <<"443">> ELSE <<"80">>)
                ELSE u.Port
    IN  IF u.err THEN [err |-> TRUE, dial |-> <<>>, useHTTPS |-> FALSE, host |-> <<>>]
        ELSE [err |-> FALSE, dial |-> u.Host \o <<":">> \o port,
              useHTTPS |-> useHTTPS, host |-> u.Host]

parseTargetURL(targetURL) ==
    targetOfURL(urlParse(IF ~Contains(targetURL, "://") THEN <<"http", "://">> \o targetURL
                         ELSE targetURL),
                HasPrefix(targetURL, <<"https", "://">>))

(***************************************************************************)
(* IP allow/block-list entries.  An entry is dotted-decimal text with an   *)
(* optional /mask and optional surrounding white space: sp says whether    *)
(* white space surrounds it, octets are the numbers between the dots and   *)
(* mask is the number after "/", -1 when there is no "/".                  *)
(***************************************************************************)
IPEntry(sp, octets, mask) == [sp |-> sp, octets |-> octets, mask |-> mask]

TrimSpace(ip) == [ip EXCEPT !.sp = FALSE]

IsEmptyString(ip) == ~ip.sp /\ ip.octets = <<>> /\ ip.mask = -1

\* net.ParseIP: four octets in 0..255 and nothing else
ParseIPOk(ip) ==
    /\ ~ip.sp
    /\ ip.mask = -1
    /\ Len(ip.octets) = 4
    /\ \A i \in 1..4 : ip.octets[i] \in 0..255

\* net.ParseCIDR: an address, "/" and a prefix length in 0..32
ParseCIDROk(ip) ==
    /\ ~ip.sp
    /\ ip.mask \in 0..32
    /\ Len(ip.octets) = 4
    /\ \A i \in 1..4 : ip.octets[i] \in 0..255

\* TRUE when the entry is accepted (the Go function returns nil)
validateIPOrCIDR(ipOrCIDR) == ParseIPOk(ipOrCIDR) \/ ParseCIDROk(ipOrCIDR)

\* validateIPList returning from inside the loop: only the first entry is looked at
validateIPListFirstOnly(ips) ==
    \A i \in DOMAIN ips :
        i = 1 => LET ip == TrimSpace(ips[i])
                 IN  IsEmptyString(ip) \/ validateIPOrCIDR(ip)

\* TRUE when every entry that is not blank is accepted
validateIPList(ips) ==
    \A i \in DOMAIN ips :
        LET ip == TrimSpace(ips[i])
        IN  IsEmptyString(ip) \/ validateIPOrCIDR(ip)

(***************************************************************************)
(* Go maps are sets of <<key, value>> pairs with at most one pair per key. *)
(***************************************************************************)
MapHas(m, k) == \E e \in m : e[1] = k

MapGet(m, k) == (CHOOSE e \in m : e[1] = k)[2]

MapPut(m, k, v) == {e \in m : e[1] # k} \cup {<<k, v>>}

MapDelete(m, k) == {e \in m : e[1] # k}

MapKeys(m) == {e[1] : e \in m}

(***************************************************************************)
(* models.Proxy                                                            *)
(***************************************************************************)
SSLModeAuto == "auto"

SSLModeNone == "none"

NoBasicAuth == [present |-> FALSE, Enabled |-> FALSE, Username |-> "", Password |-> ""]

BasicAuth(enabled, username, password) ==
    [present |-> TRUE, Enabled |-> enabled, Username |-> username, Password |-> password]

\* time.Now().Unix() in decimal and time.Now() in RFC 3339, at second n of the model's clock
UnixString(n) == ToString(1755490935 + n)

RFC3339(n) == <<"2025-08-18T04:22:", ToString(15 + n), "Z">>

GenerateProxyID(domain, now) ==
    <<"proxy", "_">> \o ReplaceAll(domain, ".", "_") \o <<"_", UnixString(now)>>

NewProxy(domain, targetURL, sslMode, now) ==
    [ID                        |-> GenerateProxyID(domain, now),
     Domain                    |-> domain,
     TargetURL                 |-> targetURL,
     SSLMode                   |-> sslMode,
     ChallengeType             |-> "http",
     DNSProvider               |-> "",
     DNSCredentials            |-> {},
     CustomHeaders             |-> {},
     BasicAuth                 |-> NoBasicAuth,
     Status                    |-> "active",
     HealthCheckEnabled        |-> FALSE,
     HealthCheckInterval       |-> "30s",
     HealthCheckPath           |-> "/",
     HealthCheckExpectedStatus |-> 200,
     AllowedIPs                |-> <<>>,
     BlockedIPs                |-> <<>>,
     CreatedAt                 |-> RFC3339(now),
     UpdatedAt                 |-> RFC3339(now)]

(***************************************************************************)
(* models.ProxyMetadata and models.MetadataStore.  The store is the set of *)
(* its entries, at most one per ID.                                        *)
(***************************************************************************)
ProxyMetadata(proxy) ==
    [ID                        |-> proxy.ID,
     HealthCheckEnabled        |-> proxy.HealthCheckEnabled,
     HealthCheckInterval       |-> proxy.HealthCheckInterval,
     HealthCheckPath           |-> proxy.HealthCheckPath,
     HealthCheckExpectedStatus |-> proxy.HealthCheckExpectedStatus,
     ChallengeType             |-> proxy.ChallengeType,
     DNSProvider               |-> proxy.DNSProvider,
     DNSCredentials            |-> proxy.DNSCredentials,
     CustomHeaders             |-> proxy.CustomHeaders,
     BasicAuth                 |-> proxy.BasicAuth,
     CreatedAt                 |-> proxy.CreatedAt,
     UpdatedAt                 |-> proxy.UpdatedAt]

NewMetadataStore == {}

MetadataSet(ms, proxy) == {m \in ms : m.ID # proxy.ID} \cup {ProxyMetadata(proxy)}

MetadataDelete(ms, proxyID) == {m \in ms : m.ID # proxyID}

MetadataHas(ms, proxyID) == \E m \in ms : m.ID = proxyID

MetadataGet(ms, proxyID) == CHOOSE m \in ms : m.ID = proxyID

\* ApplyToProxy without the test for an entry: copies the zero entry
ApplyToProxyUnchecked(ms, proxy) ==
    LET md == IF MetadataHas(ms, proxy.ID) THEN MetadataGet(ms, proxy.ID)
              ELSE [HealthCheckEnabled |-> FALSE, HealthCheckInterval |-> "",
                    HealthCheckPath |-> "", HealthCheckExpectedStatus |-> 0,
                    ChallengeType |-> "", DNSProvider |-> "", DNSCredentials |-> {},
                    CustomHeaders |-> {}, BasicAuth |-> proxy.BasicAuth,
                    CreatedAt |-> <<>>, UpdatedAt |-> <<>>]
    IN  [proxy EXCEPT !.HealthCheckEnabled        = md.HealthCheckEnabled,
                      !.HealthCheckInterval       = md.HealthCheckInterval,
                      !.HealthCheckPath           = md.HealthCheckPath,
                      !.HealthCheckExpectedStatus = md.HealthCheckExpectedStatus,
                      !.ChallengeType             = md.ChallengeType,
                      !.DNSProvider               = md.DNSProvider,
                      !.DNSCredentials            = md.DNSCredentials,
                      !.CustomHeaders             = md.CustomHeaders,
                      !.BasicAuth                 = md.BasicAuth,
                      !.CreatedAt                 = md.CreatedAt,
                      !.UpdatedAt                 = md.UpdatedAt]

ApplyToProxy(ms, proxy) ==
    IF MetadataHas(ms, proxy.ID)
    THEN LET md == MetadataGet(ms, proxy.ID)
         IN  [proxy EXCEPT !.HealthCheckEnabled        = md.HealthCheckEnabled,
                           !.HealthCheckInterval       = md.HealthCheckInterval,
                           !.HealthCheckPath           = md.HealthCheckPath,
                           !.HealthCheckExpectedStatus = md.HealthCheckExpectedStatus,
                           !.ChallengeType             = md.ChallengeType,
                           !.DNSProvider               = md.DNSProvider,
                           !.DNSCredentials            = md.DNSCredentials,
                           !.CustomHeaders             = md.CustomHeaders,
                           !.BasicAuth                 = md.BasicAuth,
                           !.CreatedAt                 = md.CreatedAt,
                           !.UpdatedAt                 = md.UpdatedAt]
    ELSE proxy

(***************************************************************************)
(* DNS provider credentials (getCredential, dnsConfigurators).             *)
(***************************************************************************)
Getenv(name) == IF MapHas(env, name) THEN MapGet(env, name) ELSE ""

\* getCredential looking at the environment first
getCredentialEnvFirst(proxy, key, envVar) ==
    IF Getenv(envVar) # "" THEN Getenv(envVar)
    ELSE IF MapHas(proxy.DNSCredentials, key) THEN MapGet(proxy.DNSCredentials, key)
    ELSE ""

getCredential(proxy, key, envVar) ==
    IF MapHas(proxy.DNSCredentials, key) /\ MapGet(proxy.DNSCredentials, key) # ""
    THEN MapGet(proxy.DNSCredentials, key)
    ELSE Getenv(envVar)

\* models.CaddyDNSProvider{Name: "dns.providers." + name}
CaddyDNSProvider(name) ==
    [Name |-> <<"dns.providers.", name>>, APIToken |-> "", AuthToken |-> "", Token |-> "",
     BearerToken |-> "", APIAccessToken |-> "", Email |-> ""]

dnsConfigurators == {"cloudflare", "digitalocean", "duckdns", "hetzner", "gandi", "dnsimple"}

configureDNSProviderCredentials(dp, proxy) ==
    CASE proxy.DNSProvider = "cloudflare" ->
            [dp EXCEPT !.APIToken = getCredential(proxy, "api_token", "CLOUDFLARE_API_TOKEN"),
                       !.Email = getCredential(proxy, "email", "CLOUDFLARE_EMAIL")]
      [] proxy.DNSProvider = "digitalocean" ->
            [dp EXCEPT !.AuthToken = getCredential(proxy, "auth_token", "DO_AUTH_TOKEN")]
      [] proxy.DNSProvider = "duckdns" ->
            [dp EXCEPT !.Token = getCredential(proxy, "token", "DUCKDNS_TOKEN")]
      [] proxy.DNSProvider = "hetzner" ->
            [dp EXCEPT !.APIToken = getCredential(proxy, "api_token", "HETZNER_API_TOKEN")]
      [] proxy.DNSProvider = "gandi" ->
            [dp EXCEPT !.BearerToken = getCredential(proxy, "bearer_token", "GANDI_BEARER_TOKEN")]
      [] proxy.DNSProvider = "dnsimple" ->
            [dp EXCEPT !.APIAccessToken =
                           getCredential(proxy, "api_access_token", "DNSIMPLE_API_ACCESS_TOKEN")]
      [] OTHER -> dp

\* the policy as a list: empty when the Go function returns nil
createDNSChallengeTLSPolicy(proxy) ==
    IF proxy.ChallengeType # "dns" \/ proxy.DNSProvider = "" THEN <<>>
    ELSE <<[SNI     |-> <<proxy.Domain>>,
            Issuers |-> <<[Module   |-> "acme",
                           Provider |-> configureDNSProviderCredentials(
                                            CaddyDNSProvider(proxy.DNSProvider), proxy)]>>]>>

\* configureDNSChallenge leaving a slot that is already filled
configureDNSChallengeKeepFirst(tls, proxy) ==
    IF proxy.ChallengeType # "dns" \/ proxy.DNSProvider = "" THEN tls
    ELSE IF MapHas(tls.CertificateAuthorities, "acme") THEN tls
    ELSE [tls EXCEPT !.CertificateAuthorities =
              MapPut(@, "acme",
                     [Module   |-> "acme",
                      Provider |-> configureDNSProviderCredentials(
                                       CaddyDNSProvider(proxy.DNSProvider), proxy)])]

\* config.Apps.TLS after configureDNSChallenge; tls.present is already TRUE
configureDNSChallenge(tls, proxy) ==
    IF proxy.ChallengeType # "dns" \/ proxy.DNSProvider = "" THEN tls
    ELSE [tls EXCEPT !.CertificateAuthorities =
              MapPut(@, "acme",
                     [Module   |-> "acme",
                      Provider |-> configureDNSProviderCredentials(
                                       CaddyDNSProvider(proxy.DNSProvider), proxy)])]

(***************************************************************************)
(* Route builder.                                                          *)
(***************************************************************************)
NoRemoteIP == [present |-> FALSE, Ranges |-> <<>>]

RemoteIPMatch(ranges) == [present |-> TRUE, Ranges |-> ranges]

\* models.CaddyMatch{}: Host is a list of names, RemoteIP and Not.RemoteIP are optional
CaddyMatch(host, remoteIP, notRemoteIP) == [Host |-> host, RemoteIP |-> remoteIP, Not |-> notRemoteIP]

\* the entries of ips that are not blank, trimmed, in order
RECURSIVE NonBlank(_)
NonBlank(ips) ==
    IF ips = <<>> THEN <<>>
    ELSE LET ip == TrimSpace(Head(ips))
         IN  (IF IsEmptyString(ip) THEN <<>> ELSE <<ip>>) \o NonBlank(Tail(ips))

buildRouteMatchers(proxy) ==
    LET host       == IF ~Contains(proxy.Domain, ":") THEN <<proxy.Domain>> ELSE <<>>
        baseMatch  == CaddyMatch(host, NoRemoteIP, NoRemoteIP)
        allowedIPs == NonBlank(proxy.AllowedIPs)
        blockedIPs == NonBlank(proxy.BlockedIPs)
        ipMatches  ==
            IF Len(proxy.AllowedIPs) > 0
            THEN (IF Len(allowedIPs) > 0
                  THEN <<CaddyMatch(host, RemoteIPMatch(allowedIPs), NoRemoteIP)>> ELSE <<>>)
            ELSE IF Len(proxy.BlockedIPs) > 0
            THEN (IF Len(blockedIPs) > 0
                  THEN <<CaddyMatch(host, NoRemoteIP, RemoteIPMatch(blockedIPs))>> ELSE <<>>)
            ELSE <<>>
    IN  IF Len(ipMatches) = 0 /\ Len(host) > 0 THEN <<baseMatch>> ELSE ipMatches

\* bcrypt.GenerateFromPassword: the hash is not the plaintext and verifies only it
bcryptHash(password) == <<"$2a$10$", password>>

NoTransport == [present |-> FALSE, Protocol |-> "", TLS |-> FALSE]

\* models.CaddyHandler with every optional part absent
CaddyHandler(name) ==
    [Handler |-> name, Upstreams |-> <<>>, RequestSet |-> {}, Transport |-> NoTransport,
     Accounts |-> <<>>, ResponseSet |-> {}, StatusCode |-> 0]

\* the handler buildReverseProxyHandler makes of the parsed target t
reverseProxyHandler(proxy, t) ==
    LET custom == {<<e[1], <<e[2]>>>> : e \in proxy.CustomHeaders}
    IN  [err     |-> t.err,
         handler |-> [CaddyHandler("reverse_proxy") EXCEPT
                         !.Upstreams  = <<[Dial |-> t.dial]>>,
                         !.RequestSet = {e \in {<<"Host", <<t.host>>>>} :
                                            ~MapHas(proxy.CustomHeaders, e[1])} \cup custom,
                         !.Transport  = IF t.useHTTPS
                                        THEN [present |-> TRUE, Protocol |-> "http", TLS |-> TRUE]
                                        ELSE NoTransport]]

buildReverseProxyHandler(proxy) == reverseProxyHandler(proxy, parseTargetURL(proxy.TargetURL))

\* the "http_basic" provider's accounts are the handler's Accounts
basicAuthHandler(proxy) ==
    [CaddyHandler("authentication") EXCEPT
        !.Accounts = <<[Username |-> proxy.BasicAuth.Username,
                        Password |-> bcryptHash(proxy.BasicAuth.Password)]>>]

\* the route with the handlers auth (none or one) and rp in this order
proxyRoute(proxy, auth, rp) ==
    [err   |-> rp.err,
     route |-> [ID     |-> proxy.ID,
                Handle |-> auth \o <<rp.handler>>,
                Match  |-> buildRouteMatchers(proxy)]]

\* buildProxyRoute without the test for an empty password
buildProxyRouteAnyPassword(proxy) ==
    proxyRoute(proxy,
               IF /\ proxy.BasicAuth.present
                  /\ proxy.BasicAuth.Enabled
                  /\ proxy.BasicAuth.Username # ""
               THEN <<basicAuthHandler(proxy)>> ELSE <<>>,
               buildReverseProxyHandler(proxy))

buildProxyRoute(proxy) ==
    proxyRoute(proxy,
               IF /\ proxy.BasicAuth.present
                  /\ proxy.BasicAuth.Enabled
                  /\ proxy.BasicAuth.Username # ""
                  /\ proxy.BasicAuth.Password # ""
               THEN <<basicAuthHandler(proxy)>> ELSE <<>>,
               buildReverseProxyHandler(proxy))

(***************************************************************************)
(* models.CaddyConfig: the configuration tree.  Apps.HTTP.Servers is a map *)
(* from bucket name to server, or nil; Apps.TLS is optional.               *)
(***************************************************************************)
NoAutomaticHTTPS == [present |-> FALSE, Disable |-> FALSE]

NoTLS == [present |-> FALSE, CertificateAuthorities |-> {}]

CaddyServer(listen, routes, automaticHTTPS, tlsPolicies) ==
    [Listen |-> listen, Routes |-> routes, AutomaticHTTPS |-> automaticHTTPS,
     TLSPolicies |-> tlsPolicies]

CaddyConfig(nilServers, servers, tls) == [nilServers |-> nilServers, Servers |-> servers, TLS |-> tls]

\* what a server without any configuration returns: no servers map at all
NullConfig == CaddyConfig(TRUE, {}, NoTLS)

\* the tree AddProxy and AddRedirect start from when the fetch gave them none
FreshConfig == CaddyConfig(FALSE, {}, NoTLS)

\* append each port of ports that list does not hold yet, in order
RECURSIVE AppendMissing(_, _)
AppendMissing(list, ports) ==
    IF ports = <<>> THEN list
    ELSE AppendMissing(IF SliceContains(list, Head(ports)) THEN list
                       ELSE Append(list, Head(ports)), Tail(ports))

Port80 == <<":", "80">>

Port443 == <<":", "443">>

proxyServerName(proxy) == IF proxy.SSLMode = SSLModeNone THEN "http_only" ELSE "https_enabled"

proxyListenPorts(proxy) ==
    LET base == IF proxy.SSLMode = SSLModeNone THEN <<Port80>> ELSE <<Port80, Port443>>
        hp   == SplitHostPort(proxy.Domain)
    IN  IF ~hp.err THEN Append(base, <<":">> \o hp.port) ELSE base

\* addProxyToConfig engaging the DNS challenge in every TLS mode
addProxyToConfigAnyMode(config, proxy, newRoute) ==
    LET serverName == proxyServerName(proxy)
        dns        == proxy.ChallengeType = "dns"
        policy     == IF dns THEN createDNSChallengeTLSPolicy(proxy) ELSE <<>>
        server     ==
            IF MapHas(config.Servers, serverName)
            THEN [MapGet(config.Servers, serverName) EXCEPT
                     !.Routes      = Append(@, newRoute),
                     !.Listen      = AppendMissing(@, proxyListenPorts(proxy)),
                     !.TLSPolicies = @ \o policy]
            ELSE CaddyServer(proxyListenPorts(proxy), <<newRoute>>,
                             IF proxy.SSLMode = SSLModeNone
                             THEN [present |-> TRUE, Disable |-> TRUE] ELSE NoAutomaticHTTPS,
                             policy)
    IN  [config EXCEPT !.Servers = MapPut(@, serverName, server),
                       !.TLS = IF dns
                               THEN configureDNSChallenge([config.TLS EXCEPT !.present = TRUE], proxy)
                               ELSE config.TLS]

\* addProxyToConfig putting the new route in front of the bucket's routes
addProxyToConfigInFront(config, proxy, newRoute) ==
    LET serverName == proxyServerName(proxy)
        old        == IF MapHas(config.Servers, serverName)
                      THEN MapGet(config.Servers, serverName)
                      ELSE CaddyServer(<<>>, <<>>, NoAutomaticHTTPS, <<>>)
    IN  [config EXCEPT !.Servers =
            MapPut(@, serverName,
                   [old EXCEPT !.Routes = <<newRoute>> \o @,
                               !.Listen = AppendMissing(@, proxyListenPorts(proxy))])]

\* the local copy of the tree after AddProxy has merged the new route into it
addProxyToConfig(config, proxy, newRoute) ==
    LET serverName == proxyServerName(proxy)
        listenPorts == proxyListenPorts(proxy)
        dns        == proxy.SSLMode = SSLModeAuto /\ proxy.ChallengeType = "dns"
        policy     == IF dns THEN createDNSChallengeTLSPolicy(proxy) ELSE <<>>
        server     ==
            IF MapHas(config.Servers, serverName)
            THEN LET old == MapGet(config.Servers, serverName)
                 IN  [old EXCEPT !.Routes      = Append(@, newRoute),
                                 !.Listen      = AppendMissing(@, listenPorts),
                                 !.TLSPolicies = @ \o policy]
            ELSE CaddyServer(listenPorts, <<newRoute>>,
                             IF proxy.SSLMode = SSLModeNone
                             THEN [present |-> TRUE, Disable |-> TRUE] ELSE NoAutomaticHTTPS,
                             policy)
        tls        == IF dns
                      THEN configureDNSChallenge([config.TLS EXCEPT !.present = TRUE], proxy)
                      ELSE config.TLS
    IN  [config EXCEPT !.Servers = MapPut(@, serverName, server), !.TLS = tls]

(***************************************************************************)
(* The calls of the client.  st is the state a call runs on: the tree the  *)
(* server holds (live), the snapshot file (configFile), the overlay store  *)
(* (metadata) and its file (metadataFile).  A file that was never written  *)
(* holds NoFile.  io tells how the requests and file writes of the call    *)
(* turn out: get and post are the admin API's answers (TRUE for status     *)
(* 200), cfgWrite and metaWrite the results of os.WriteFile.  A call       *)
(* returns the new state, its error ("" for nil) and the number of         *)
(* replace requests the server accepted or refused during the call.        *)
(***************************************************************************)
NoFile == [exists |-> FALSE, content |-> <<>>]

File(content) == [exists |-> TRUE, content |-> <<content>>]

Result(st, err, posts) == [st |-> st, err |-> err, posts |-> posts]

\* GetConfig: the tree and whether the request failed
GetConfig(st, io) == [err |-> ~io.get, config |-> st.live]

saveMetadataToFile(st, io) ==
    IF io.metaWrite THEN [st EXCEPT !.metadataFile = File(st.metadata)] ELSE st

saveConfigToFile(st, config, io) ==
    IF io.cfgWrite THEN [st EXCEPT !.configFile = File(config)] ELSE st

\* updateConfig returning the error of a failed snapshot write
updateConfigSnapshotFatal(st, config, io) ==
    IF ~io.post THEN Result(st, "failed to update config", 1)
    ELSE Result(saveConfigToFile([st EXCEPT !.live = config], config, io),
                IF io.cfgWrite THEN "" ELSE "failed to save config", 1)

\* updateConfig writing the snapshot before it knows the server's answer
updateConfigSnapshotFirst(st, config, io) ==
    IF ~io.post THEN Result(saveConfigToFile(st, config, io), "failed to update config", 1)
    ELSE Result(saveConfigToFile([st EXCEPT !.live = config], config, io), "", 1)

updateConfig(st, config, io) ==
    IF ~io.post THEN Result(st, "failed to update config", 1)
    ELSE Result(saveConfigToFile([st EXCEPT !.live = config], config, io), "", 1)

\* AddProxy from the built route on: fetch, merge, overlay record, push
addBuiltRoute(st, proxy, io, built) ==
    LET got    == GetConfig(st, io)
        config == IF got.err \/ got.config.nilServers THEN FreshConfig ELSE got.config
        merged == addProxyToConfig(config, proxy, built.route)
        saved  == saveMetadataToFile([st EXCEPT !.metadata = MetadataSet(@, proxy)], io)
    IN  IF built.err THEN Result(st, "failed to build proxy route", 0)
        ELSE updateConfig(saved, merged, io)

AddProxyCall(st, proxy, io) ==
    IF ~validateIPList(proxy.AllowedIPs) THEN Result(st, "invalid allowed IPs", 0)
    ELSE IF ~validateIPList(proxy.BlockedIPs) THEN Result(st, "invalid blocked IPs", 0)
    ELSE addBuiltRoute(st, proxy, io, buildProxyRoute(proxy))

\* json.Unmarshal of a snapshot into a CaddyConfig: the servers map (none
\* for "servers": null) and the tls app
unmarshalConfig(doc) == CaddyConfig(doc.nilServers, doc.Servers, doc.TLS)

LoadConfigFromFile(st, configFilePath, io) ==
    IF configFilePath = <<>> \/ ~st.configFile.exists \/ ~io.cfgRead
    THEN [err |-> TRUE, config |-> NullConfig]
    ELSE [err |-> FALSE, config |-> unmarshalConfig(st.configFile.content[1])]

\* RestoreConfigFromFile ignoring the server's answer
RestoreConfigFromFileUnchecked(st, configFilePath, io) ==
    LET loaded == LoadConfigFromFile(st, configFilePath, io)
    IN  IF configFilePath = <<>> \/ ~st.configFile.exists THEN Result(st, "", 0)
        ELSE IF loaded.err THEN Result(st, "failed to load config from file", 0)
        ELSE Result(IF io.post THEN [st EXCEPT !.live = loaded.config] ELSE st, "", 1)

RestoreConfigFromFile(st, configFilePath, io) ==
    LET loaded == LoadConfigFromFile(st, configFilePath, io)
    IN  IF configFilePath = <<>> \/ ~st.configFile.exists THEN Result(st, "", 0)
        ELSE IF loaded.err THEN Result(st, "failed to load config from file", 0)
        ELSE IF ~io.post THEN Result(st, "failed to restore config", 1)
        ELSE Result([st EXCEPT !.live = loaded.config], "", 1)

\* New: a client with the overlay store the metadata file holds, an empty
\* one when there is no file
loadMetadataFromFile(st) ==
    [st EXCEPT !.metadata = IF st.metadataFile.exists THEN st.metadataFile.content[1]
                            ELSE NewMetadataStore]

\* the routes of a list whose identifier is not id, in order
RECURSIVE filterRoutes(_, _)
filterRoutes(routes, id) ==
    IF routes = <<>> THEN <<>>
    ELSE (IF Head(routes).ID # id THEN <<Head(routes)>> ELSE <<>>) \o filterRoutes(Tail(routes), id)

hasRoute(server, id) == \E i \in DOMAIN server.Routes : server.Routes[i].ID = id

\* the buckets of a tree that hold a route with identifier id
serversWithRoute(config, id) == {e[1] : e \in {s \in config.Servers : hasRoute(s[2], id)}}

\* removeRouteFromServer keeping a bucket that lost its last route
removeRouteFromServerKeepBucket(config, serverName, id) ==
    LET server == MapGet(config.Servers, serverName)
    IN  [config EXCEPT !.Servers = MapPut(@, serverName,
                                         [server EXCEPT !.Routes = filterRoutes(@, id)])]

\* removeRouteFromServer that also takes the TLS policies and the
\* domain-embedded listen ports out of the bucket
removeRouteFromServerCleaning(config, serverName, id) ==
    LET server   == MapGet(config.Servers, serverName)
        filtered == filterRoutes(server.Routes, id)
    IN  IF Len(filtered) = 0
        THEN [config EXCEPT !.Servers = MapDelete(@, serverName)]
        ELSE [config EXCEPT !.Servers =
                 MapPut(@, serverName,
                        [server EXCEPT !.Routes = filtered,
                                       !.TLSPolicies = <<>>,
                                       !.Listen = SelectSeq(@, LAMBDA port :
                                                      port \in {<<":", "80">>, <<":", "443">>})])]

\* the tree after the route was taken out of bucket serverName
removeRouteFromServer(config, serverName, id) ==
    LET server   == MapGet(config.Servers, serverName)
        filtered == filterRoutes(server.Routes, id)
    IN  IF Len(filtered) = 0
        THEN [config EXCEPT !.Servers = MapDelete(@, serverName)]
        ELSE [config EXCEPT !.Servers = MapPut(@, serverName, [server EXCEPT !.Routes = filtered])]

\* Go ranges over the servers map in an unspecified order: first is the
\* bucket holding the route that the loop reaches first
DeleteProxyCall(st, id, io, first) ==
    LET saved == saveMetadataToFile([st EXCEPT !.metadata = MetadataDelete(@, id)], io)
        got   == GetConfig(saved, io)
    IN  IF got.err \/ got.config.nilServers THEN Result(saved, "failed to get current config", 0)
        ELSE IF serversWithRoute(got.config, id) = {} THEN Result(saved, "route not found", 0)
        ELSE updateConfig(saved, removeRouteFromServer(got.config, first, id), io)

\* UpdateProxy returns the delete's error, else what the add returns
updateResult(deleted, added) ==
    IF deleted.err # "" THEN deleted
    ELSE Result(added.st, added.err, deleted.posts + added.posts)

UpdateProxyCall(st, proxy, ioDelete, first, ioAdd) ==
    LET deleted == DeleteProxyCall(st, proxy.ID, ioDelete, first)
    IN  updateResult(deleted, AddProxyCall(deleted.st, proxy, ioAdd))

(***************************************************************************)
(* Reconciler: ParseProxiesFromConfig.                                     *)
(***************************************************************************)
\* reverseProxyIndex looking at the first handler only
reverseProxyIndexFirstOnly(handle) ==
    IF Len(handle) > 0 /\ handle[1].Handler = "reverse_proxy" THEN 1 ELSE 0

\* index of the first reverse_proxy handler of a chain, 0 when there is none
reverseProxyIndex(handle) ==
    IF \E i \in DOMAIN handle : handle[i].Handler = "reverse_proxy"
    THEN CHOOSE i \in DOMAIN handle :
            /\ handle[i].Handler = "reverse_proxy"
            /\ \A j \in 1..(i - 1) : handle[j].Handler # "reverse_proxy"
    ELSE 0

\* models.Proxy{ID, Status, CreatedAt, UpdatedAt}: every other field is zero
parsedProxyDefaults(id) ==
    [ID                        |-> id,
     Domain                    |-> <<>>,
     TargetURL                 |-> <<>>,
     SSLMode                   |-> "",
     ChallengeType             |-> "",
     DNSProvider               |-> "",
     DNSCredentials            |-> {},
     CustomHeaders             |-> {},
     BasicAuth                 |-> NoBasicAuth,
     Status                    |-> "active",
     HealthCheckEnabled        |-> FALSE,
     HealthCheckInterval       |-> "",
     HealthCheckPath           |-> "",
     HealthCheckExpectedStatus |-> 0,
     AllowedIPs                |-> <<>>,
     BlockedIPs                |-> <<>>,
     CreatedAt                 |-> <<"2024-01-01T00:00:00Z">>,
     UpdatedAt                 |-> <<"2024-01-01T00:00:00Z">>]

\* the domain decoded from a route identifier "proxy_<domain>_<timestamp>"
domainFromID(id) ==
    LET parts == Split(id, "_")
    IN  IF HasPrefix(id, <<"proxy", "_">>) /\ Len(parts) >= 3
        THEN ReplaceAll(Join(SubSeq(parts, 2, Len(parts) - 1), "_"), "_", ":")
        ELSE <<>>

parsedDomain(route) ==
    IF Len(route.Match) > 0 /\ Len(route.Match[1].Host) > 0
    THEN route.Match[1].Host[1]
    ELSE domainFromID(route.ID)

parsedTargetURL(handler) ==
    IF Len(handler.Upstreams) > 0
    THEN LET dial   == handler.Upstreams[1].Dial
             scheme == IF HasSuffix(dial, <<":", "443">>) THEN "https" ELSE "http"
         IN  <<scheme, "://">> \o dial
    ELSE <<>>

parsedSSLMode(serverName, server) ==
    LET hasHTTPS == SliceContains(server.Listen, Port443)
    IN  IF serverName = "http_only" \/ ~hasHTTPS THEN "none" ELSE "auto"

\* the proxy the parser makes of one qualifying route
parseRoute(serverName, server, route, ms) ==
    LET rp == route.Handle[reverseProxyIndex(route.Handle)]
    IN  [ApplyToProxy(ms, parsedProxyDefaults(route.ID)) EXCEPT
            !.Domain    = parsedDomain(route),
            !.TargetURL = parsedTargetURL(rp),
            !.SSLMode   = parsedSSLMode(serverName, server)]

RECURSIVE parseRoutes(_, _, _, _)
parseRoutes(serverName, server, routes, ms) ==
    IF routes = <<>> THEN <<>>
    ELSE LET route == Head(routes)
         IN  (IF route.ID = <<>> \/ reverseProxyIndex(route.Handle) = 0 THEN <<>>
              ELSE <<parseRoute(serverName, server, route, ms)>>)
             \o parseRoutes(serverName, server, Tail(routes), ms)

\* the servers are visited in some order of Go's range over the map; the
\* properties below read the result as a set
RECURSIVE parseServers(_, _)
parseServers(servers, ms) ==
    IF servers = {} THEN <<>>
    ELSE LET s == CHOOSE e \in servers : TRUE
         IN  parseRoutes(s[1], s[2], s[2].Routes, ms) \o parseServers(servers \ {s}, ms)

ParseProxiesFromConfig(config, ms) ==
    IF config.nilServers THEN <<>> ELSE parseServers(config.Servers, ms)

(***************************************************************************)
(* Redirects: models.Redirect, AddRedirect, DeleteRedirect, UpdateRedirect *)
(* and ParseRedirectsFromConfig.  The placeholder "{http.request.uri}" is  *)
(* one token of a destination URL.                                         *)
(***************************************************************************)
URIPlaceholder == <<"{http.request.uri}">>

GenerateRedirectID(domain, now) ==
    <<"redirect", "_">> \o ReplaceAll(domain, ".", "_") \o <<"_", UnixString(now)>>

NewRedirect(sourceDomains, destinationURL, redirectCode, preservePath, now) ==
    [ID             |-> GenerateRedirectID(IF Len(sourceDomains) > 0 THEN sourceDomains[1]
                                           ELSE <<"redirect">>, now),
     SourceDomains  |-> sourceDomains,
     DestinationURL |-> destinationURL,
     RedirectCode   |-> redirectCode,
     PreservePath   |-> preservePath,
     Status         |-> "active",
     CreatedAt      |-> RFC3339(now),
     UpdatedAt      |-> RFC3339(now)]

\* Redirect.Validate: "" when the redirect is accepted
RedirectValidate(r) ==
    IF Len(r.SourceDomains) = 0 THEN "at least one source domain is required"
    ELSE IF r.DestinationURL = <<>> THEN "destination URL is required"
    ELSE IF r.RedirectCode # 301 /\ r.RedirectCode # 302 THEN "redirect code must be 301 or 302"
    ELSE IF ~HasPrefix(r.DestinationURL, <<"http", "://">>)
            /\ ~HasPrefix(r.DestinationURL, <<"https", "://">>)
         THEN "destination URL must start with http:// or https://"
    ELSE ""

\* one host matcher for every source domain without a port
RECURSIVE redirectMatchers(_)
redirectMatchers(domains) ==
    IF domains = <<>> THEN <<>>
    ELSE (IF ~Contains(Head(domains), ":")
          THEN <<CaddyMatch(<<Head(domains)>>, NoRemoteIP, NoRemoteIP)>> ELSE <<>>)
         \o redirectMatchers(Tail(domains))

buildRedirectRoute(redirect) ==
    LET destinationURL == IF redirect.PreservePath
                          THEN redirect.DestinationURL \o URIPlaceholder
                          ELSE redirect.DestinationURL
        headersHandler == [CaddyHandler("headers") EXCEPT
                              !.ResponseSet = {<<"Location", <<destinationURL>>>>}]
        responseHandler == [CaddyHandler("static_response") EXCEPT
                               !.StatusCode = redirect.RedirectCode]
        matchers == redirectMatchers(redirect.SourceDomains)
    IN  [ID     |-> redirect.ID,
         Handle |-> <<headersHandler, responseHandler>>,
         Match  |-> IF Len(matchers) = 0 THEN <<CaddyMatch(<<>>, NoRemoteIP, NoRemoteIP)>>
                    ELSE matchers]

\* the tree after AddRedirect put the route into https_enabled
addRedirectToConfig(config, newRoute) ==
    IF MapHas(config.Servers, "https_enabled")
    THEN LET server == MapGet(config.Servers, "https_enabled")
         IN  [config EXCEPT !.Servers =
                 MapPut(@, "https_enabled",
                        [server EXCEPT !.Routes = Append(@, newRoute),
                                       !.Listen = AppendMissing(@, <<Port80, Port443>>)])]
    ELSE [config EXCEPT !.Servers =
             MapPut(@, "https_enabled",
                    CaddyServer(<<Port80, Port443>>, <<newRoute>>, NoAutomaticHTTPS, <<>>))]

\* AddRedirect after validation: fetch, merge, push
addRedirectRoute(st, io, got, newRoute) ==
    updateConfig(st,
                 addRedirectToConfig(IF got.err \/ got.config.nilServers THEN FreshConfig
                                     ELSE got.config, newRoute),
                 io)

AddRedirectCall(st, redirect, io) ==
    IF RedirectValidate(redirect) # "" THEN Result(st, "invalid redirect", 0)
    ELSE addRedirectRoute(st, io, GetConfig(st, io), buildRedirectRoute(redirect))

\* deleteRedirectFrom refusing an identifier that no redirect route carries
deleteRedirectFromRedirectsOnly(st, id, io, first, got) ==
    IF got.err \/ got.config.nilServers THEN Result(st, "failed to get current config", 0)
    ELSE IF serversWithRoute(got.config, id) = {} \/ ~HasPrefix(id, <<"redirect", "_">>)
         THEN Result(st, "redirect not found", 0)
    ELSE updateConfig(st, removeRouteFromServer(got.config, first, id), io)

\* DeleteRedirect: as DeleteProxy, without the overlay store
deleteRedirectFrom(st, id, io, first, got) ==
    IF got.err \/ got.config.nilServers THEN Result(st, "failed to get current config", 0)
    ELSE IF serversWithRoute(got.config, id) = {} THEN Result(st, "redirect not found", 0)
    ELSE updateConfig(st, removeRouteFromServer(got.config, first, id), io)

DeleteRedirectCall(st, id, io, first) == deleteRedirectFrom(st, id, io, first, GetConfig(st, io))

UpdateRedirectCall(st, redirect, ioDelete, first, ioAdd) ==
    LET deleted == DeleteRedirectCall(st, redirect.ID, ioDelete, first)
    IN  updateResult(deleted, AddRedirectCall(deleted.st, redirect, ioAdd))

\* the last static_response handler with a status of 301 or 302, 0 when none
responseIndex(handle) ==
    LET hits == {i \in DOMAIN handle : /\ handle[i].Handler = "static_response"
                                       /\ handle[i].StatusCode >= 301
                                       /\ handle[i].StatusCode <= 302}
    IN  IF hits = {} THEN 0 ELSE CHOOSE i \in hits : \A j \in hits : j <= i

\* the first Location value of the last headers handler, <<>> when none
locationOf(handle) ==
    LET hits == {i \in DOMAIN handle : handle[i].Handler = "headers"}
        last_ == CHOOSE i \in hits : \A j \in hits : j <= i
    IN  IF hits = {} THEN <<>>
        ELSE IF MapHas(handle[last_].ResponseSet, "Location")
                /\ Len(MapGet(handle[last_].ResponseSet, "Location")) > 0
             THEN MapGet(handle[last_].ResponseSet, "Location")[1]
        ELSE <<>>

\* the hosts of all the matchers of a route, in order
RECURSIVE matchedHosts(_)
matchedHosts(matches) ==
    IF matches = <<>> THEN <<>> ELSE Head(matches).Host \o matchedHosts(Tail(matches))

\* the redirect the parser makes of a route with the Location value location
parsedRedirect(route, location, statusCode) ==
    LET preserve == HasSuffix(location, URIPlaceholder)
    IN  [ID             |-> route.ID,
         SourceDomains  |-> matchedHosts(route.Match),
         DestinationURL |-> IF preserve THEN SubSeq(location, 1, Len(location) - 1)
                            ELSE location,
         RedirectCode   |-> statusCode,
         PreservePath   |-> preserve,
         Status         |-> "active",
         CreatedAt      |-> <<"2024-01-01T00:00:00Z">>,
         UpdatedAt      |-> <<"2024-01-01T00:00:00Z">>]

\* the redirects of the routes of one server
RECURSIVE parseRedirectRoutes(_)
parseRedirectRoutes(routes) ==
    IF routes = <<>> THEN <<>>
    ELSE LET route == Head(routes)
         IN  (IF \/ ~HasPrefix(route.ID, <<"redirect", "_">>)
                 \/ responseIndex(route.Handle) = 0
                 \/ locationOf(route.Handle) = <<>>
              THEN <<>>
              ELSE <<parsedRedirect(route, locationOf(route.Handle),
                                    route.Handle[responseIndex(route.Handle)].StatusCode)>>)
             \o parseRedirectRoutes(Tail(routes))

RECURSIVE parseRedirectServers(_)
parseRedirectServers(servers) ==
    IF servers = {} THEN <<>>
    ELSE LET s == CHOOSE e \in servers : TRUE
         IN  parseRedirectRoutes(s[2].Routes) \o parseRedirectServers(servers \ {s})

ParseRedirectsFromConfig(config) ==
    IF config.nilServers THEN <<>> ELSE parseRedirectServers(config.Servers)

(***************************************************************************)
(* Inputs: the proxies the HTTP handlers hand to the client.  CreateProxy  *)
(* and UpdateProxy build them with NewProxy and then copy the request's    *)
(* fields over the defaults.                                               *)
(***************************************************************************)
DomPlain == <<"app", ".", "example", ".", "com">>

DomPort == <<"localhost", ":", "9801">>

DomDotPort == <<"app", ".", "example", ".", "com", ":", "8080">>

Dom443 == <<"localhost", ":", "443">>

TargetHTTPPort == <<"http", "://", "backend", ":", "8080">>

TargetBare == <<"backend", ":", "3000">>

TargetHTTPSNoPort == <<"https", "://", "backend">>

TargetHTTPSPort == <<"https", "://", "backend", ":", "8443">>

TargetHTTPS443 == <<"https", "://", "backend", ":", "443">>

TargetHTTPNoPort == <<"http", "://", "backend">>

TargetMalformed == <<"http", "://", "backend", ":", "http">>

IPValid == IPEntry(FALSE, <<10, 0, 0, 1>>, -1)

IPPadded == IPEntry(TRUE, <<10, 0, 0, 1>>, -1)

CIDRValid == IPEntry(FALSE, <<192, 168, 1, 0>>, 24)

CIDRInvalid == IPEntry(FALSE, <<300, 1, 1, 1>>, 40)

IPInvalid == IPEntry(FALSE, <<10, 0, 0>>, -1)

IPBlank == IPEntry(TRUE, <<>>, -1)

\* what a request body can set beyond domain, target and TLS mode
WithBasicAuth(proxy, ba) == [proxy EXCEPT !.BasicAuth = ba]

WithIPs(proxy, allowed, blocked) == [proxy EXCEPT !.AllowedIPs = allowed, !.BlockedIPs = blocked]

WithDNS(proxy, provider, credentials) ==
    [proxy EXCEPT !.ChallengeType = "dns", !.DNSProvider = provider, !.DNSCredentials = credentials]

WithExtras(proxy) ==
    [proxy EXCEPT !.CustomHeaders = {<<"X-Forwarded-Proto", <<"https">>>>},
                  !.HealthCheckEnabled = TRUE, !.HealthCheckInterval = "10s",
                  !.HealthCheckPath = "/health", !.HealthCheckExpectedStatus = 204]

\* proxies the client accepts
ValidProxies ==
    {NewProxy(DomPlain, TargetHTTPPort, "auto", 1),
     WithExtras(WithBasicAuth(NewProxy(DomPlain, TargetBare, "custom", 1),
                              BasicAuth(TRUE, "admin", "secret"))),
     WithIPs(WithBasicAuth(NewProxy(DomPlain, TargetHTTPSPort, "none", 1),
                           BasicAuth(TRUE, "admin", "")),
             <<IPPadded, IPBlank>>, <<>>),
     WithIPs(WithBasicAuth(NewProxy(DomPort, TargetHTTPS443, "none", 1),
                           BasicAuth(TRUE, "", "secret")),
             <<IPValid, CIDRValid>>, <<>>),
     WithBasicAuth(NewProxy(DomDotPort, TargetHTTPSNoPort, "none", 1),
                   BasicAuth(FALSE, "admin", "secret")),
     WithIPs(NewProxy(Dom443, TargetHTTPNoPort, "none", 1), <<IPBlank>>, <<CIDRValid>>),
     WithDNS(NewProxy(DomPlain, TargetHTTPPort, "auto", 2), "cloudflare",
             {<<"api_token", "tok123">>}),
     WithDNS(NewProxy(DomPort, TargetHTTPPort, "auto", 1), "cloudflare", {})}

\* proxies the client rejects: a bad allow-list, a bad block-list, a bad target
InvalidProxies ==
    {WithIPs(NewProxy(DomPlain, TargetHTTPPort, "auto", 1), <<IPValid, CIDRInvalid>>, <<>>),
     WithIPs(NewProxy(DomPort, TargetHTTPPort, "none", 1), <<>>, <<IPBlank, IPInvalid>>),
     NewProxy(DomPlain, TargetMalformed, "auto", 1)}

\* every domain shape in the TLS modes
DomainModeProxies ==
    {NewProxy(dom, TargetHTTPPort, mode, 1) :
        dom \in {DomPlain, DomPort, DomDotPort, Dom443}, mode \in {"auto", "none"}}
    \cup {NewProxy(DomPlain, TargetHTTPPort, "custom", 1)}

\* every target shape
TargetProxies ==
    {NewProxy(DomPlain, target, "auto", 1) :
        target \in {TargetBare, TargetHTTPSNoPort, TargetHTTPSPort, TargetHTTPS443,
                    TargetHTTPNoPort}}

\* every way of filling in the basic-auth settings
BasicAuthProxies ==
    {WithBasicAuth(NewProxy(DomPlain, TargetHTTPPort, "auto", 2), ba) :
        ba \in {BasicAuth(TRUE, "admin", "secret"), BasicAuth(TRUE, "admin", ""),
                BasicAuth(TRUE, "", "secret"), BasicAuth(FALSE, "admin", "secret"),
                BasicAuth(FALSE, "", "")}}

\* DNS-challenge proxies: an empty explicit token, a provider the client
\* has no configurator for, no provider at all
DNSProxies ==
    {WithDNS(NewProxy(DomPlain, TargetHTTPPort, "auto", 3), "cloudflare", {<<"api_token", "">>}),
     WithDNS(NewProxy(DomPlain, TargetHTTPPort, "auto", 3), "route53",
             {<<"api_token", "tok123">>}),
     WithDNS(NewProxy(DomPort, TargetHTTPPort, "auto", 3), "", {})}

\* proxies that name a DNS provider without asking for the DNS challenge
\* in TLS mode auto
ChallengeProxies ==
    {WithDNS(NewProxy(DomPlain, TargetHTTPPort, "custom", 4), "cloudflare",
             {<<"api_token", "tok123">>}),
     WithDNS(NewProxy(DomPort, TargetHTTPPort, "none", 4), "duckdns", {<<"token", "tok123">>}),
     [WithDNS(NewProxy(DomPlain, TargetHTTPPort, "auto", 4), "digitalocean",
              {<<"auth_token", "tok123">>}) EXCEPT !.ChallengeType = "http"],
     WithDNS(NewProxy(DomPlain, TargetHTTPPort, "auto", 4), "digitalocean",
             {<<"auth_token", "tok123">>})}

Proxies ==
    ValidProxies \cup InvalidProxies \cup DomainModeProxies \cup TargetProxies
        \cup BasicAuthProxies \cup DNSProxies

\* the proxies of the long runs: one identifier in both TLS modes, a second
\* identifier with a port in its domain, and the three kinds of bad input
CoreProxies ==
    {NewProxy(DomPlain, TargetHTTPPort, "auto", 1),
     WithIPs(WithBasicAuth(NewProxy(DomPlain, TargetHTTPSPort, "none", 1),
                           BasicAuth(TRUE, "admin", "")),
             <<IPPadded, IPBlank>>, <<>>),
     WithIPs(WithBasicAuth(NewProxy(DomPort, TargetHTTPS443, "none", 1),
                           BasicAuth(TRUE, "", "secret")),
             <<IPValid, CIDRValid>>, <<>>)}
    \cup InvalidProxies

CoreIDs == {p.ID : p \in CoreProxies}

Environments == {{}, {<<"CLOUDFLARE_API_TOKEN", "envtoken">>}}

\* redirects as the handlers make them with NewRedirect
DomOld == <<"old", ".", "com">>

DestNew == <<"https", "://", "new", ".", "com">>

\* a destination that itself ends with the placeholder
DestWithPlaceholder == <<"https", "://", "new", ".", "com", "{http.request.uri}">>

DestFTP == <<"ftp", "://", "new", ".", "com">>

ValidRedirects ==
    {NewRedirect(<<DomOld>>, DestNew, 301, TRUE, 1),
     NewRedirect(<<DomOld, DomPort>>, DestNew, 302, FALSE, 2),
     NewRedirect(<<DomPort>>, <<"http", "://", "new", ".", "com", "/", "path">>, 302, TRUE, 1),
     NewRedirect(<<DomPlain>>, DestWithPlaceholder, 301, FALSE, 1),
     NewRedirect(<<DomPlain>>, DestWithPlaceholder, 301, TRUE, 2)}

\* redirects Validate refuses: a bad code, no source, no destination, a bad scheme
InvalidRedirects ==
    {NewRedirect(<<DomOld>>, DestNew, 307, FALSE, 1),
     NewRedirect(<<DomOld>>, DestNew, 0, TRUE, 1),
     NewRedirect(<<>>, DestNew, 301, FALSE, 1),
     NewRedirect(<<DomOld>>, <<>>, 301, FALSE, 1),
     NewRedirect(<<DomOld>>, DestFTP, 302, FALSE, 1)}

Redirects == ValidRedirects \cup InvalidRedirects

\* the redirects of the long runs: one identifier, as created, as updated
\* to another code and as updated to a code Validate refuses
CoreRedirects ==
    {NewRedirect(<<DomOld>>, DestNew, 301, TRUE, 1),
     [NewRedirect(<<DomOld>>, DestNew, 302, FALSE, 1) EXCEPT !.UpdatedAt = RFC3339(2)],
     [NewRedirect(<<DomOld>>, DestNew, 307, TRUE, 1) EXCEPT !.UpdatedAt = RFC3339(2)]}

CoreRedirectIDs == {r.ID : r \in CoreRedirects}

\* the proxies that share a tree with the redirects: one for each bucket
MixedProxies ==
    {NewProxy(DomPlain, TargetHTTPPort, "auto", 1),
     NewProxy(DomPort, TargetHTTPPort, "none", 1)}

\* the proxies of the runs on the TLS state of the tree
TLSProxies == DNSProxies \cup ChallengeProxies \cup MixedProxies

\* the identifiers a delete request can name
MixedIDs == {p.ID : p \in MixedProxies} \cup CoreRedirectIDs

(***************************************************************************)
(* How the requests and file writes of one call turn out.                  *)
(***************************************************************************)
AllOK == [get |-> TRUE, post |-> TRUE, cfgWrite |-> TRUE, metaWrite |-> TRUE, cfgRead |-> TRUE]

\* a startup whose snapshot cannot be read or decoded, or whose push is refused
RestoreOutcomes == {AllOK, [AllOK EXCEPT !.cfgRead = FALSE], [AllOK EXCEPT !.post = FALSE]}

\* the snapshot path main hands to New, and the path of a client made without one
ConfigFilePaths == {<<"./caddy-config.json">>, <<>>}

\* the admin API fails one request of the call
OneFault == {[AllOK EXCEPT !.get = FALSE], [AllOK EXCEPT !.post = FALSE]}

Outcomes == {AllOK} \cup OneFault

\* the server answers every request; either local file may not be writable
FileOutcomes ==
    {[AllOK EXCEPT !.cfgWrite = c, !.metaWrite = m] : c \in BOOLEAN, m \in BOOLEAN}

\* ... or the snapshot file cannot be written
SnapshotOutcomes == Outcomes \cup {[AllOK EXCEPT !.cfgWrite = FALSE]}

FaultsOf(io) == IF io = AllOK THEN 0 ELSE 1

\* the failed requests among the outcomes of the requests of one call
FaultCount(ios) ==
    IF Len(ios) = 0 THEN 0
    ELSE IF Len(ios) = 1 THEN FaultsOf(ios[1])
    ELSE FaultsOf(ios[1]) + FaultsOf(ios[2])

\* the proxy field of last for a call that has no proxy argument
NoProxy == parsedProxyDefaults(<<>>)

ClientState ==
    [live |-> live, configFile |-> configFile, metadata |-> metadata, metadataFile |-> metadataFile]

routeCount(config) ==
    LET n[S \in SUBSET config.Servers] ==
            IF S = {} THEN 0
            ELSE LET s == CHOOSE e \in S : TRUE IN Len(s[2].Routes) + n[S \ {s}]
    IN  n[config.Servers]

\* the redirect field of last for a call that has no redirect argument
NoRedirect == NewRedirect(<<>>, <<>>, 0, FALSE, 0)

\* the effect of a finished call on the state
FinishCall(r, op, proxy, redirect, id, ios) ==
    /\ live' = r.st.live
    /\ configFile' = r.st.configFile
    /\ metadata' = r.st.metadata
    /\ metadataFile' = r.st.metadataFile
    /\ faults' = faults + FaultCount(ios)
    /\ last' = [op |-> op, proxy |-> proxy, redirect |-> redirect, id |-> id, io |-> ios,
                err |-> r.err, posts |-> r.posts]
    /\ UNCHANGED <<env, calls, pushes, crashed, health, storage>>

Finish(r, op, proxy, id, ios) == FinishCall(r, op, proxy, NoRedirect, id, ios)

FinishRedirect(r, op, redirect, id, ios) == FinishCall(r, op, NoProxy, redirect, id, ios)

\* the requests that run AddProxy at the same time, each in a goroutine of
\* the HTTP server
Callers == {1, 2}

\* a request that has not called AddProxy yet
IdleCall ==
    [pc |-> "idle", proxy |-> NoProxy, config |-> NullConfig, err |-> "",
     fetchedAt |-> 0, raced |-> FALSE]

(***************************************************************************)
(* The health service.  health.statuses and health.cancels are the two     *)
(* maps of Service, both guarded by Service.mu: every call below holds the *)
(* lock from start to end and is one step.  health.loops are the           *)
(* goroutines StartHealthCheck has started, in order: the proxy each       *)
(* checks, whether its context is cancelled, where it is in                *)
(* runHealthCheck and how many checks it has begun.  A cancel function in  *)
(* health.cancels is the index of the loop whose context it cancels.  A    *)
(* status carries, next to Status and Message, the loop whose check wrote  *)
(* it last (Loop, 0 for StartHealthCheck); LastChecked, a clock reading,   *)
(* is left out.  health.ret is what the last call of the API returned.     *)
(***************************************************************************)
NewService ==
    [statuses |-> {}, cancels |-> {}, loops |-> <<>>,
     ret |-> [op |-> "NewService", id |-> "", err |-> FALSE, exists |-> FALSE]]

HealthStatus(status, message, loop) == [Status |-> status, Message |-> message, Loop |-> loop]

\* time.ParseDuration: a number followed by a unit
ParseDurationFails(interval) ==
    ~(/\ Len(interval) = 2
      /\ interval[1] \in {"5", "30"}
      /\ interval[2] \in {"ms", "s", "m", "h"})

HealthProxy(id, enabled, interval, expectedStatus) ==
    [ID |-> id, HealthCheckEnabled |-> enabled, HealthCheckInterval |-> interval,
     HealthCheckExpectedStatus |-> expectedStatus]

HealthIDs == {"proxy_a", "proxy_b"}

HealthProxies ==
    {HealthProxy(id, enabled, interval, expected) :
        id \in HealthIDs, enabled \in BOOLEAN, interval \in {<<"30", "s">>, <<"30">>},
        expected \in {200, 204}}

\* what the backend answers to a check: a status code, or 0 for a request
\* that failed
Responses == {0, 200, 204}

cancelLoop(loops, l) == [loops EXCEPT ![l].cancelled = TRUE]

\* the service after StartHealthCheck(proxy) and the error it returned
StartHealthCheckCall(svc, proxy) ==
    IF ~proxy.HealthCheckEnabled THEN [svc |-> svc, err |-> FALSE]
    ELSE LET stopped == IF MapHas(svc.cancels, proxy.ID)
                        THEN [svc EXCEPT !.loops = cancelLoop(@, MapGet(svc.cancels, proxy.ID)),
                                         !.cancels = MapDelete(@, proxy.ID)]
                        ELSE svc
         IN  IF ParseDurationFails(proxy.HealthCheckInterval)
             THEN [svc |-> [stopped EXCEPT !.statuses =
                               MapPut(@, proxy.ID, HealthStatus("Unhealthy", "Invalid interval", 0))],
                   err |-> TRUE]
             ELSE [svc |-> [stopped EXCEPT
                               !.statuses = MapPut(@, proxy.ID,
                                                   HealthStatus("Pending", "Health check starting", 0)),
                               !.cancels = MapPut(@, proxy.ID, Len(stopped.loops) + 1),
                               !.loops = Append(@, [proxy |-> proxy, cancelled |-> FALSE,
                                                    pc |-> "initial", checks |-> 0])],
                   err |-> FALSE]

StopHealthCheckCall(svc, proxyID) ==
    IF MapHas(svc.cancels, proxyID)
    THEN [svc EXCEPT !.loops = cancelLoop(@, MapGet(svc.cancels, proxyID)),
                     !.cancels = MapDelete(@, proxyID),
                     !.statuses = MapDelete(@, proxyID)]
    ELSE svc

\* updateStatus writes only an entry that is there
updateStatus(svc, proxyID, status, message, loop) ==
    IF MapHas(svc.statuses, proxyID)
    THEN [svc EXCEPT !.statuses = MapPut(@, proxyID, HealthStatus(status, message, loop))]
    ELSE svc

\* the status performHealthCheck writes for a response
performHealthCheck(svc, proxy, response, loop) ==
    IF response = 0 THEN updateStatus(svc, proxy.ID, "Unhealthy", "Request failed", loop)
    ELSE IF response = proxy.HealthCheckExpectedStatus
         THEN updateStatus(svc, proxy.ID, "Healthy", "Health check passed", loop)
    ELSE updateStatus(svc, proxy.ID, "Unhealthy",
                      <<"Expected status", proxy.HealthCheckExpectedStatus, "got", response>>, loop)

clientVars ==
    <<live, configFile, metadata, metadataFile, env, faults, last, calls, pushes, crashed>>

HealthReturn(svc, op, id, err, exists) ==
    /\ health' = [svc EXCEPT !.ret = [op |-> op, id |-> id, err |-> err, exists |-> exists]]
    /\ UNCHANGED <<clientVars, storage>>

StartHealthCheck ==
    \E proxy \in HealthProxies :
        /\ Len(health.loops) < MaxLoops
        /\ LET r == StartHealthCheckCall(health, proxy)
           IN  HealthReturn(r.svc, "StartHealthCheck", proxy.ID, r.err, FALSE)

StopHealthCheck ==
    \E id \in HealthIDs :
        HealthReturn(StopHealthCheckCall(health, id), "StopHealthCheck", id, FALSE, FALSE)

GetHealthStatus ==
    \E id \in HealthIDs :
        HealthReturn(health, "GetHealthStatus", id, FALSE, MapHas(health.statuses, id))

\* runHealthCheck starts a check: the first one right away, whatever the
\* context says; a later one when the select takes the ticker, which it
\* may also do when the context is done as well
BeginCheck ==
    \E l \in DOMAIN health.loops :
        /\ health.loops[l].pc \in {"initial", "waiting"}
        /\ health.loops[l].checks < MaxChecks
        /\ health' = [health EXCEPT !.loops[l].pc = "checking", !.loops[l].checks = @ + 1]
        /\ UNCHANGED <<clientVars, storage>>

\* the request of a check returns and performHealthCheck writes the status
EndCheck ==
    \E l \in DOMAIN health.loops, response \in Responses :
        /\ health.loops[l].pc = "checking"
        /\ health' = [performHealthCheck(health, health.loops[l].proxy, response, l)
                         EXCEPT !.loops[l].pc = "waiting"]
        /\ UNCHANGED <<clientVars, storage>>

\* the select takes ctx.Done() and runHealthCheck returns
LoopReturn ==
    \E l \in DOMAIN health.loops :
        /\ health.loops[l].pc = "waiting"
        /\ health.loops[l].cancelled
        /\ health' = [health EXCEPT !.loops[l].pc = "returned"]
        /\ UNCHANGED <<clientVars, storage>>

NextHealth ==
    \/ StartHealthCheck
    \/ StopHealthCheck
    \/ GetHealthStatus
    \/ BeginCheck
    \/ EndCheck
    \/ LoopReturn

(***************************************************************************)
(* Authentication.  storage.users and storage.sessions are the two maps    *)
(* of auth.Storage with their files, guarded by Storage.mu: each method of *)
(* Storage is one step, a handler that calls several of them is several    *)
(* steps.  storage.reqs are the Setup requests in flight, one for each     *)
(* caller, storage.now is the clock, storage.issued counts the identifiers *)
(* and tokens generated so far, storage.revoked are the tokens whose        *)
(* session Logout has deleted, storage.ret is the answer to the last       *)
(* finished request.                                                       *)
(* GenerateID, GenerateToken, HashPassword, CheckPassword,                 *)
(* GetSessionDuration and IsSessionExpired are not part of the sources at  *)
(* hand: identifiers and tokens are taken to be fresh, a session to last   *)
(* SessionDuration and to be expired once the clock is past Expires.       *)
(***************************************************************************)
SessionDuration == 1

IdleRequest == [pc |-> "idle", username |-> <<>>, password |-> <<>>, userID |-> 0]

NoAnswer == [op |-> "NewStorage", caller |-> 0, token |-> 0, status |-> 0, message |-> ""]

NewStorage ==
    [users |-> {}, sessions |-> {}, usersFile |-> {}, sessionsFile |-> {},
     reqs |-> [c \in Callers |-> IdleRequest], now |-> 0, issued |-> 0, revoked |-> {},
     ret |-> NoAnswer]

Answer(op, caller, token, status, message) ==
    [op |-> op, caller |-> caller, token |-> token, status |-> status, message |-> message]

\* GenerateID and GenerateToken: a value that was not generated before
GenerateID(st) == st.issued + 1

HashPassword(password) == <<"bcrypt">> \o password

CheckPassword(password, hash) == hash = HashPassword(password)

IsSessionExpired(st, expires) == st.now > expires

\* GetSession without the test of the expiry time
GetSessionAnyAge(st, token) ==
    IF ~MapHas(st.sessions, token) THEN [err |-> "session not found", UserID |-> 0]
    ELSE [err |-> "", UserID |-> MapGet(st.sessions, token).UserID]

IsSetup(st) == Cardinality(st.users) > 0

usernameTaken(st, username) == \E u \in st.users : u[2].Username = username

\* CreateUser: the storage afterwards, the new user's identifier and the error
CreateUser(st, username, password) ==
    IF usernameTaken(st, username) THEN [st |-> st, id |-> 0, err |-> "user already exists"]
    ELSE LET id    == GenerateID(st)
             users == MapPut(st.users, id,
                             [Username |-> username, Password |-> HashPassword(password)])
         IN  [st |-> [st EXCEPT !.users = users, !.usersFile = users, !.issued = id],
              id |-> id, err |-> ""]

\* CreateSession: the storage afterwards and the token of the new session
CreateSession(st, userID) ==
    LET token    == GenerateID(st)
        sessions == MapPut(st.sessions, token,
                           [UserID |-> userID, Expires |-> st.now + SessionDuration])
    IN  [st |-> [st EXCEPT !.sessions = sessions, !.sessionsFile = sessions, !.issued = token],
         token |-> token]

GetSession(st, token) ==
    IF ~MapHas(st.sessions, token) THEN [err |-> "session not found", UserID |-> 0]
    ELSE IF IsSessionExpired(st, MapGet(st.sessions, token).Expires)
         THEN [err |-> "session expired", UserID |-> 0]
    ELSE [err |-> "", UserID |-> MapGet(st.sessions, token).UserID]

DeleteSession(st, token) ==
    LET sessions == MapDelete(st.sessions, token)
    IN  [st EXCEPT !.sessions = sessions, !.sessionsFile = sessions]

CleanExpiredSessionsOf(st) ==
    LET sessions == {e \in st.sessions : ~IsSessionExpired(st, e[2].Expires)}
    IN  [st EXCEPT !.sessions = sessions, !.sessionsFile = sessions]

authDisabled == Getenv("DISABLE_AUTH") = "true"

\* the Authorization headers of the requests: none, another scheme, a
\* bearer without a token, a bearer with a token (0 was never issued)
Tokens == 0..MaxIDs

\* the empty string in the place of a token
EmptyToken == -1

AuthHeaders ==
    {<<>>, <<"Bearer">>, <<"Bearer", EmptyToken>>, <<"Basic", 1>>}
        \cup {<<"Bearer", t>> : t \in Tokens}

tokenOf(header) == IF Len(header) = 2 /\ header[2] # EmptyToken THEN header[2] ELSE 0

\* RequireAuth: the status the request ends with, 200 when the next
\* handler is reached
RequireAuthAnswer(st, header) ==
    IF authDisabled THEN Answer("RequireAuth", 0, tokenOf(header), 200, "")
    ELSE IF header = <<>>
         THEN Answer("RequireAuth", 0, 0, 401, "Authorization header required")
    ELSE IF Len(header) # 2 \/ header[1] # "Bearer"
         THEN Answer("RequireAuth", 0, tokenOf(header), 401, "Invalid authorization header format")
    ELSE IF header[2] = EmptyToken
         THEN Answer("RequireAuth", 0, 0, 401, "Token required")
    ELSE IF GetSession(st, header[2]).err # ""
         THEN Answer("RequireAuth", 0, header[2], 401, "Invalid or expired session")
    ELSE Answer("RequireAuth", 0, header[2], 200, "")

Usernames == {<<"admin">>, <<"root">>, <<" ">>}

Passwords == {<<"s", "e", "c", "r", "e", "t">>, <<"a", "b", "c">>}

blankString(str) == \A i \in DOMAIN str : str[i] = " "

AuthStep(st) ==
    /\ storage' = st
    /\ UNCHANGED <<clientVars, health>>

\* Setup up to the call of CreateUser: the checks of the handler
SetupBegin(c) ==
    \E username \in Usernames, password \in Passwords :
        /\ storage.reqs[c].pc = "idle"
        /\ storage.issued < MaxIDs
        /\ AuthStep(
              IF authDisabled
              THEN [storage EXCEPT !.ret = Answer("Setup", c, 0, 400, "Authentication is disabled")]
              ELSE IF IsSetup(storage)
              THEN [storage EXCEPT !.ret = Answer("Setup", c, 0, 400, "System already setup")]
              ELSE IF blankString(username) \/ blankString(password)
              THEN [storage EXCEPT
                       !.ret = Answer("Setup", c, 0, 400, "Username and password are required")]
              ELSE IF Len(password) < 6
              THEN [storage EXCEPT
                       !.ret = Answer("Setup", c, 0, 400, "Password must be at least 6 characters")]
              ELSE [storage EXCEPT !.reqs[c] = [pc |-> "create", username |-> username,
                                                password |-> password, userID |-> 0]])

setupCreated(st, c, created) ==
    IF created.err # ""
    THEN [created.st EXCEPT !.reqs[c] = IdleRequest,
                            !.ret = Answer("Setup", c, 0, 500, "Failed to create user")]
    ELSE [created.st EXCEPT !.reqs[c].pc = "session", !.reqs[c].userID = created.id]

\* Setup: the call of CreateUser
SetupCreateUser(c) ==
    /\ storage.reqs[c].pc = "create"
    /\ storage.issued < MaxIDs
    /\ AuthStep(setupCreated(storage, c,
                             CreateUser(storage, storage.reqs[c].username,
                                        storage.reqs[c].password)))

setupAnswered(c, session) ==
    [session.st EXCEPT !.reqs[c] = IdleRequest,
                       !.ret = Answer("Setup", c, session.token, 200,
                                      "Setup completed successfully")]

\* Setup: the call of CreateSession and the answer
SetupCreateSession(c) ==
    /\ storage.reqs[c].pc = "session"
    /\ storage.issued < MaxIDs
    /\ AuthStep(setupAnswered(c, CreateSession(storage, storage.reqs[c].userID)))

loginAnswered(session) ==
    [session.st EXCEPT !.ret = Answer("Login", 0, session.token, 200, "Login successful")]

Login ==
    \E username \in Usernames, password \in Passwords :
        /\ storage.issued < MaxIDs
        /\ AuthStep(
              IF authDisabled
              THEN [storage EXCEPT !.ret = Answer("Login", 0, 0, 400, "Authentication is disabled")]
              ELSE IF ~IsSetup(storage)
              THEN [storage EXCEPT !.ret = Answer("Login", 0, 0, 403, "Setup required")]
              ELSE IF blankString(username) \/ blankString(password)
              THEN [storage EXCEPT
                       !.ret = Answer("Login", 0, 0, 400, "Username and password are required")]
              ELSE IF ~\E u \in storage.users : /\ u[2].Username = username
                                                /\ CheckPassword(password, u[2].Password)
              THEN [storage EXCEPT !.ret = Answer("Login", 0, 0, 401, "Invalid credentials")]
              ELSE loginAnswered(CreateSession(storage,
                      (CHOOSE u \in storage.users : u[2].Username = username)[1])))

Logout ==
    \E header \in AuthHeaders :
        AuthStep(
           IF authDisabled
           THEN [storage EXCEPT !.ret = Answer("Logout", 0, tokenOf(header), 200, "Logged out")]
           ELSE IF header = <<>>
           THEN [storage EXCEPT
                    !.ret = Answer("Logout", 0, 0, 400, "Authorization header required")]
           ELSE IF Len(header) # 2 \/ header[1] # "Bearer"
           THEN [storage EXCEPT !.ret = Answer("Logout", 0, tokenOf(header), 400,
                                               "Invalid authorization header format")]
           ELSE IF header[2] = EmptyToken
           THEN [storage EXCEPT !.ret = Answer("Logout", 0, 0, 400, "Token required")]
           ELSE [DeleteSession(storage, header[2]) EXCEPT
                    !.revoked = @ \cup ({header[2]} \cap MapKeys(storage.sessions)),
                    !.ret = Answer("Logout", 0, header[2], 200, "Logged out successfully")])

RequireAuth ==
    \E header \in AuthHeaders :
        AuthStep([storage EXCEPT !.ret = RequireAuthAnswer(storage, header)])

\* the cleanup goroutine of the server
CleanExpiredSessions ==
    AuthStep([CleanExpiredSessionsOf(storage) EXCEPT
                 !.ret = Answer("CleanExpiredSessions", 0, 0, 0, "")])

\* time passes
Tick ==
    /\ storage.now < MaxTime
    /\ AuthStep([storage EXCEPT !.now = @ + 1, !.ret = Answer("Tick", 0, 0, 0, "")])

\* Setup requests of the callers, at the same time
NextSetup ==
    \/ \E c \in Callers : SetupBegin(c)
    \/ \E c \in Callers : SetupCreateUser(c)
    \/ \E c \in Callers : SetupCreateSession(c)

\* the requests of one caller, one after another, the cleanup and the clock
NextSession ==
    \/ SetupBegin(1)
    \/ SetupCreateUser(1)
    \/ SetupCreateSession(1)
    \/ Login
    \/ Logout
    \/ RequireAuth
    \/ CleanExpiredSessions
    \/ Tick

(***************************************************************************)
(* State machine.  Spec runs the three proxy calls of the client, with     *)
(* failing requests, on the proxies of CoreProxies; SpecBuild adds the     *)
(* proxies of Proxies, one after another, to a server that answers every   *)
(* request.                                                                *)
(***************************************************************************)
Init ==
    /\ live = NullConfig
    /\ configFile = NoFile
    /\ metadata = NewMetadataStore
    /\ metadataFile = NoFile
    /\ env = {}
    /\ faults = 0
    /\ last = [op |-> "New", proxy |-> NoProxy, redirect |-> NoRedirect, id |-> <<>>,
               io |-> <<>>, err |-> "", posts |-> 0]
    /\ calls = [c \in Callers |-> IdleCall]
    /\ pushes = <<>>
    /\ crashed = FALSE
    /\ health = NewService
    /\ storage = NewStorage

\* one call of the client's AddProxy, DeleteProxy or UpdateProxy, with its
\* argument from the given catalogue and its requests turning out as one of outcomes
AddProxyOf(proxies, outcomes) ==
    \E proxy \in proxies, io \in outcomes :
        /\ routeCount(live) < MaxRoutes
        /\ faults + FaultsOf(io) <= MaxFaults
        /\ Finish(AddProxyCall(ClientState, proxy, io), "AddProxy", proxy, proxy.ID, <<io>>)

DeleteProxyOf(ids, outcomes) ==
    \E id \in ids, io \in outcomes :
        \E first \in IF serversWithRoute(live, id) = {} THEN {""} ELSE serversWithRoute(live, id) :
            /\ faults + FaultsOf(io) <= MaxFaults
            /\ Finish(DeleteProxyCall(ClientState, id, io, first), "DeleteProxy", NoProxy, id,
                      <<io>>)

UpdateProxyOf(proxies, outcomes) ==
    \E proxy \in proxies, ioDelete \in outcomes, ioAdd \in outcomes :
        \E first \in IF serversWithRoute(live, proxy.ID) = {} THEN {""}
                     ELSE serversWithRoute(live, proxy.ID) :
            /\ faults + FaultsOf(ioDelete) + FaultsOf(ioAdd) <= MaxFaults
            /\ Finish(UpdateProxyCall(ClientState, proxy, ioDelete, first, ioAdd), "UpdateProxy",
                      proxy, proxy.ID, <<ioDelete, ioAdd>>)

AddProxy == AddProxyOf(CoreProxies, Outcomes)

DeleteProxy == DeleteProxyOf(CoreIDs, Outcomes)

UpdateProxy == UpdateProxyOf(CoreProxies, Outcomes)

Next == AddProxy \/ DeleteProxy \/ UpdateProxy

Spec == Init /\ [][Next]_vars

SpecHealth == Init /\ [][NextHealth]_vars

\* SpecSetup runs Setup requests of two callers at the same time,
\* SpecSession the requests of one caller with the clock running; both
\* with authentication enabled and disabled
InitAuth ==
    /\ live = NullConfig
    /\ configFile = NoFile
    /\ metadata = NewMetadataStore
    /\ metadataFile = NoFile
    /\ env \in {{}, {<<"DISABLE_AUTH", "true">>}}
    /\ faults = 0
    /\ last = [op |-> "New", proxy |-> NoProxy, redirect |-> NoRedirect, id |-> <<>>,
               io |-> <<>>, err |-> "", posts |-> 0]
    /\ calls = [c \in Callers |-> IdleCall]
    /\ pushes = <<>>
    /\ crashed = FALSE
    /\ health = NewService
    /\ storage = NewStorage

SpecSetup == InitAuth /\ [][NextSetup]_vars

SpecSession == InitAuth /\ [][NextSession]_vars

\* SpecMixed runs the six mutations of the client, proxies and redirects in
\* one tree, with failing requests and failing snapshot writes
AddMixedProxy == AddProxyOf(MixedProxies, SnapshotOutcomes)

DeleteMixedProxy == DeleteProxyOf(MixedIDs, SnapshotOutcomes)

UpdateMixedProxy == UpdateProxyOf(MixedProxies, SnapshotOutcomes)

AddRedirect ==
    \E redirect \in CoreRedirects, io \in SnapshotOutcomes :
        /\ routeCount(live) < MaxRoutes
        /\ faults + FaultsOf(io) <= MaxFaults
        /\ FinishRedirect(AddRedirectCall(ClientState, redirect, io), "AddRedirect", redirect,
                          redirect.ID, <<io>>)

DeleteRedirect ==
    \E id \in MixedIDs, io \in SnapshotOutcomes :
        \E first \in IF serversWithRoute(live, id) = {} THEN {""} ELSE serversWithRoute(live, id) :
            /\ faults + FaultsOf(io) <= MaxFaults
            /\ FinishRedirect(DeleteRedirectCall(ClientState, id, io, first), "DeleteRedirect",
                              NoRedirect, id, <<io>>)

UpdateRedirect ==
    \E redirect \in CoreRedirects, ioDelete \in SnapshotOutcomes, ioAdd \in SnapshotOutcomes :
        \E first \in IF serversWithRoute(live, redirect.ID) = {} THEN {""}
                     ELSE serversWithRoute(live, redirect.ID) :
            /\ faults + FaultsOf(ioDelete) + FaultsOf(ioAdd) <= MaxFaults
            /\ FinishRedirect(UpdateRedirectCall(ClientState, redirect, ioDelete, first, ioAdd),
                              "UpdateRedirect", redirect, redirect.ID, <<ioDelete, ioAdd>>)

NextMixed ==
    \/ AddMixedProxy
    \/ DeleteMixedProxy
    \/ UpdateMixedProxy
    \/ AddRedirect
    \/ DeleteRedirect
    \/ UpdateRedirect

SpecMixed == Init /\ [][NextMixed]_vars

\* the list request: GetConfig, then ParseProxiesFromConfig on the tree
GetProxies ==
    \E io \in {AllOK, [AllOK EXCEPT !.get = FALSE]} :
        /\ faults + FaultsOf(io) <= MaxFaults
        /\ Finish(Result(ClientState, IF GetConfig(ClientState, io).err
                                      THEN "Failed to get Caddy config" ELSE "", 0),
                  "GetProxies", NoProxy, <<>>, <<io>>)

\* routes as the client writes them and routes that were put into the
\* server's configuration by other means: without an identifier, with a
\* foreign identifier and no reverse proxy, with a redirect's identifier on
\* a reverse proxy
ListedRoutes ==
    LET plain    == buildProxyRoute(NewProxy(DomPlain, TargetHTTPPort, "auto", 1)).route
        withAuth == buildProxyRoute(WithBasicAuth(NewProxy(DomPort, TargetHTTPPort, "none", 1),
                                                  BasicAuth(TRUE, "admin", "secret"))).route
        redirect == buildRedirectRoute(NewRedirect(<<DomOld>>, DestNew, 301, TRUE, 1))
    IN  {plain, withAuth, redirect,
         [plain EXCEPT !.ID = <<>>],
         [redirect EXCEPT !.ID = <<"static", "_", "1">>],
         [withAuth EXCEPT !.ID = redirect.ID]}

\* the trees the list requests are tried on: up to two of these routes in
\* "https_enabled", with or without one of them in "http_only"
ListedTrees ==
    LET server(routes) == CaddyServer(<<Port80, Port443>>, routes, NoAutomaticHTTPS, <<>>)
        one == {<<r>> : r \in ListedRoutes}
        two == {<<r1, r2>> : r1 \in ListedRoutes, r2 \in ListedRoutes}
    IN  {CaddyConfig(FALSE, {<<"https_enabled", server(routes)>>}, NoTLS) :
            routes \in one \cup two}
        \cup {CaddyConfig(FALSE, {<<"https_enabled", server(routes)>>,
                                  <<"http_only", server(other)>>}, NoTLS) :
                 routes \in one \cup two, other \in one}

\* SpecList runs the two list requests on a server that holds one of
\* ListedTrees
InitList ==
    /\ live \in ListedTrees
    /\ configFile = NoFile
    /\ metadata = NewMetadataStore
    /\ metadataFile = NoFile
    /\ env = {}
    /\ faults = 0
    /\ last = [op |-> "New", proxy |-> NoProxy, redirect |-> NoRedirect, id |-> <<>>,
               io |-> <<>>, err |-> "", posts |-> 0]
    /\ calls = [c \in Callers |-> IdleCall]
    /\ pushes = <<>>
    /\ crashed = FALSE
    /\ health = NewService
    /\ storage = NewStorage

\* the redirect list: GetConfig, then ParseRedirectsFromConfig on the tree
GetRedirects ==
    \E io \in {AllOK, [AllOK EXCEPT !.get = FALSE]} :
        /\ faults + FaultsOf(io) <= MaxFaults
        /\ Finish(Result(ClientState, IF GetConfig(ClientState, io).err
                                      THEN "Failed to get Caddy config" ELSE "", 0),
                  "GetRedirects", NoProxy, <<>>, <<io>>)

NextList == GetProxies \/ GetRedirects

SpecList == InitList /\ [][NextList]_vars

\* SpecFiles runs AddProxy and DeleteProxy against a server that answers
\* every request while the writes of the two local files may fail
AddFileProxy == AddProxyOf(MixedProxies, FileOutcomes)

DeleteFileProxy == DeleteProxyOf({p.ID : p \in MixedProxies}, FileOutcomes)

NextFiles == AddFileProxy \/ DeleteFileProxy

SpecFiles == Init /\ [][NextFiles]_vars

\* SpecRestore adds and deletes proxies, restarts the proxy server without
\* its configuration, and restarts the backend, which restores the snapshot
ServerRestart ==
    Finish(Result([ClientState EXCEPT !.live = NullConfig], "", 0), "ServerRestart", NoProxy,
           <<>>, <<>>)

\* main: New, then RestoreConfigFromFile; last.id is the snapshot path
Startup ==
    \E configFilePath \in ConfigFilePaths, io \in RestoreOutcomes :
        /\ faults + FaultsOf(io) <= MaxFaults
        /\ Finish(RestoreConfigFromFile(loadMetadataFromFile(ClientState), configFilePath, io),
                  "RestoreConfigFromFile", NoProxy, configFilePath, <<io>>)

\* SpecSerial runs the three proxy calls one after another on a server
\* that answers every request, with every file write succeeding
AddSerialProxy == AddProxyOf(CoreProxies, {AllOK})

DeleteSerialProxy == DeleteProxyOf(CoreIDs, {AllOK})

UpdateSerialProxy == UpdateProxyOf(CoreProxies, {AllOK})

NextSerial == AddSerialProxy \/ DeleteSerialProxy \/ UpdateSerialProxy

SpecSerial == Init /\ [][NextSerial]_vars

NextRestore == AddMixedProxy \/ DeleteMixedProxy \/ ServerRestart \/ Startup \/ GetProxies

SpecRestore == Init /\ [][NextRestore]_vars

InitBuild ==
    /\ live = NullConfig
    /\ configFile = NoFile
    /\ metadata = NewMetadataStore
    /\ metadataFile = NoFile
    /\ env \in Environments
    /\ faults = 0
    /\ last = [op |-> "New", proxy |-> NoProxy, redirect |-> NoRedirect, id |-> <<>>,
               io |-> <<>>, err |-> "", posts |-> 0]
    /\ calls = [c \in Callers |-> IdleCall]
    /\ pushes = <<>>
    /\ crashed = FALSE
    /\ health = NewService
    /\ storage = NewStorage

AddAnyProxy ==
    \E proxy \in Proxies :
        /\ routeCount(live) < MaxRoutes
        /\ Finish(AddProxyCall(ClientState, proxy, AllOK), "AddProxy", proxy, proxy.ID, <<AllOK>>)

AddAnyRedirect ==
    \E redirect \in Redirects :
        /\ routeCount(live) < MaxRoutes
        /\ FinishRedirect(AddRedirectCall(ClientState, redirect, AllOK), "AddRedirect", redirect,
                          redirect.ID, <<AllOK>>)

NextBuild == AddAnyProxy \/ AddAnyRedirect

SpecBuild == InitBuild /\ [][NextBuild]_vars

\* SpecDNS adds and deletes proxies with and without the DNS challenge on a
\* server that answers every request, in each environment
AddTLSProxy ==
    /\ \A s \in live.Servers : Len(s[2].TLSPolicies) < MaxPolicies
    /\ AddProxyOf(TLSProxies, {AllOK})

DeleteTLSProxy == DeleteProxyOf({p.ID : p \in TLSProxies}, {AllOK})

NextDNS == AddTLSProxy \/ DeleteTLSProxy

SpecDNS == InitBuild /\ [][NextDNS]_vars

(***************************************************************************)
(* SpecRace runs one AddProxy in each of two requests at the same time,    *)
(* statement by statement.  calls[c] is the position of request c in       *)
(* AddProxy with its local variables, pushes the requests in the order     *)
(* their replace requests were accepted, crashed whether the Go runtime    *)
(* has ended the process.  The overlay store is a plain Go map without a   *)
(* lock: a request is inside the map from "setting" (metadata.Set writes   *)
(* it) and from "marshalling" (json.MarshalIndent reads it).  A write that *)
(* overlaps another access is a data race, and the request that raced      *)
(* gets any of the outcomes the runtime can produce.                       *)
(***************************************************************************)
AtStep(c, pc) == ~crashed /\ calls[c].pc = pc

Step(c, call) ==
    /\ calls' = [calls EXCEPT ![c] = call]
    /\ UNCHANGED <<env, faults, last, health, storage>>

\* the requests other than c that are inside the map, at one of the steps pcs
OthersInside(c, pcs) == {d \in Callers \ {c} : calls[d].pc \in pcs}

\* request c enters the map at step pc, racing with the requests of racing
EnterStore(c, pc, racing) ==
    /\ calls' = [d \in Callers |->
                    IF d = c THEN [calls[c] EXCEPT !.pc = pc, !.raced = @ \/ racing # {}]
                    ELSE IF d \in racing THEN [calls[d] EXCEPT !.raced = TRUE]
                    ELSE calls[d]]
    /\ UNCHANGED <<live, configFile, metadata, metadataFile, env, faults, last, pushes, crashed,
                   health, storage>>

\* validation and buildProxyRoute, for a proxy no other request is adding
BeginAddProxy(c) ==
    \E proxy \in MixedProxies :
        /\ AtStep(c, "idle")
        /\ \A d \in Callers \ {c} : calls[d].proxy.ID # proxy.ID
        /\ Step(c, IF ~validateIPList(proxy.AllowedIPs)
                    THEN [calls[c] EXCEPT !.pc = "done", !.proxy = proxy, !.err = "invalid allowed IPs"]
                    ELSE IF ~validateIPList(proxy.BlockedIPs)
                    THEN [calls[c] EXCEPT !.pc = "done", !.proxy = proxy, !.err = "invalid blocked IPs"]
                    ELSE IF buildProxyRoute(proxy).err
                    THEN [calls[c] EXCEPT !.pc = "done", !.proxy = proxy,
                                          !.err = "failed to build proxy route"]
                    ELSE [calls[c] EXCEPT !.pc = "fetch", !.proxy = proxy])
        /\ UNCHANGED <<live, configFile, metadata, metadataFile, pushes, crashed>>

\* GetConfig and the merge of the new route into the local copy
FetchTree(c) ==
    /\ AtStep(c, "fetch")
    /\ LET got    == GetConfig(ClientState, AllOK)
           config == IF got.err \/ got.config.nilServers THEN FreshConfig ELSE got.config
       IN  Step(c, [calls[c] EXCEPT
                        !.pc = "set",
                        !.config = addProxyToConfig(config, calls[c].proxy,
                                                    buildProxyRoute(calls[c].proxy).route),
                        !.fetchedAt = Len(pushes)])
    /\ UNCHANGED <<live, configFile, metadata, metadataFile, pushes, crashed>>

\* metadata.Set starts to write the map
SetBegin(c) ==
    /\ AtStep(c, "set")
    /\ EnterStore(c, "setting", OthersInside(c, {"setting", "marshalling"}))

\* metadata.Set returns: the entry is stored; after a race it is stored, or
\* lost, or the runtime has ended the process ("concurrent map writes")
SetEnd(c) ==
    /\ AtStep(c, "setting")
    /\ \E outcome \in IF calls[c].raced THEN {"stored", "lost", "fatal"} ELSE {"stored"} :
          /\ metadata' = IF outcome = "stored" THEN MetadataSet(metadata, calls[c].proxy)
                          ELSE metadata
          /\ crashed' = (outcome = "fatal")
    /\ Step(c, [calls[c] EXCEPT !.pc = "marshal", !.raced = FALSE])
    /\ UNCHANGED <<live, configFile, metadataFile, pushes>>

\* saveMetadataToFile starts to marshal the map
MarshalBegin(c) ==
    /\ AtStep(c, "marshal")
    /\ EnterStore(c, "marshalling", OthersInside(c, {"setting"}))

\* saveMetadataToFile writes the file; after a race the runtime may have
\* ended the process ("concurrent map iteration and map write")
MarshalEnd(c) ==
    /\ AtStep(c, "marshalling")
    /\ \E outcome \in IF calls[c].raced THEN {"written", "fatal"} ELSE {"written"} :
          /\ metadataFile' = IF outcome = "written"
                              THEN saveMetadataToFile(ClientState, AllOK).metadataFile
                              ELSE metadataFile
          /\ crashed' = (outcome = "fatal")
    /\ Step(c, [calls[c] EXCEPT !.pc = "push", !.raced = FALSE])
    /\ UNCHANGED <<live, configFile, metadata, pushes>>

\* updateConfig: the server accepts the local copy as its tree
Push(c) ==
    /\ AtStep(c, "push")
    /\ live' = calls[c].config
    /\ pushes' = Append(pushes, c)
    /\ Step(c, [calls[c] EXCEPT !.pc = "snapshot"])
    /\ UNCHANGED <<configFile, metadata, metadataFile, crashed>>

\* updateConfig: the snapshot of the pushed tree, then AddProxy returns nil
Snapshot(c) ==
    /\ AtStep(c, "snapshot")
    /\ configFile' = saveConfigToFile(ClientState, calls[c].config, AllOK).configFile
    /\ Step(c, [calls[c] EXCEPT !.pc = "done"])
    /\ UNCHANGED <<live, metadata, metadataFile, pushes, crashed>>

NextRace ==
    \/ \E c \in Callers : BeginAddProxy(c)
    \/ \E c \in Callers : FetchTree(c)
    \/ \E c \in Callers : SetBegin(c)
    \/ \E c \in Callers : SetEnd(c)
    \/ \E c \in Callers : MarshalBegin(c)
    \/ \E c \in Callers : MarshalEnd(c)
    \/ \E c \in Callers : Push(c)
    \/ \E c \in Callers : Snapshot(c)

SpecRace == Init /\ [][NextRace]_vars

(***************************************************************************)
(* Properties.                                                             *)
(***************************************************************************)
Range(seq) == {seq[i] : i \in DOMAIN seq}

\* the proxies the reconciler makes of the live tree under identifier id
parsedWithID(config, ms, id) == {q \in Range(ParseProxiesFromConfig(config, ms)) : q.ID = id}

AddSucceeded == last.op = "AddProxy" /\ last.err = ""

\* the fields of a proxy that only the overlay store carries
overlayFields(proxy) ==
    <<proxy.ChallengeType, proxy.DNSProvider, proxy.DNSCredentials, proxy.CustomHeaders,
      proxy.BasicAuth, proxy.HealthCheckEnabled, proxy.HealthCheckInterval,
      proxy.HealthCheckPath, proxy.HealthCheckExpectedStatus, proxy.CreatedAt, proxy.UpdatedAt>>

\* C1: after a successful AddProxy(p) the reconciler yields a proxy with
\* p's identifier whose target URL is p's target URL, whatever shape the
\* target had.  The code rebuilds the URL from the dial address, so it fails.
C1_TargetRoundTrip ==
    AddSucceeded =>
        \E q \in parsedWithID(live, metadata, last.id) : q.TargetURL = last.proxy.TargetURL

\* C2: after a successful AddProxy(p) with a TLS mode of auto, custom or none
\* the reconciler yields a proxy with p's identifier and p's TLS mode.  The
\* code answers "auto" for every route of the https_enabled bucket.
C2_SSLModeRoundTrip ==
    (AddSucceeded /\ last.proxy.SSLMode \in {"auto", "custom", "none"}) =>
        \E q \in parsedWithID(live, metadata, last.id) : q.SSLMode = last.proxy.SSLMode

\* C3: after a successful AddProxy(p) of a proxy made by NewProxy the
\* reconciler yields a proxy with p's identifier and p's domain, with and
\* without a port in the domain.  Decoding the identifier turns the dots of a
\* port-qualified domain into colons.
C3_DomainRoundTrip ==
    AddSucceeded =>
        \E q \in parsedWithID(live, metadata, last.id) : q.Domain = last.proxy.Domain

\* C4: right after a successful AddProxy(p) the reconciler yields a proxy with
\* p's identifier and p's overlay fields, and a proxy the reconciler yields
\* keeps its identifier and overlay fields over every later add or delete of
\* a proxy with another identifier.  An AddProxy whose fetch failed pushes a
\* tree without the earlier routes.
C4_OverlayRoundTrip ==
    [][/\ AddSucceeded' =>
             \E q \in parsedWithID(live', metadata', last'.id) :
                 overlayFields(q) = overlayFields(last'.proxy)
       /\ \A q \in Range(ParseProxiesFromConfig(live, metadata)) :
             (last'.op \in {"AddProxy", "DeleteProxy"} /\ last'.id # q.ID) =>
                 \E r \in parsedWithID(live', metadata', q.ID) :
                     overlayFields(r) = overlayFields(q)]_vars

\* C5: after a successful DeleteProxy(id) no bucket of the live tree holds a
\* route with identifier id, and a bucket whose only routes had that
\* identifier is gone.  The code stops at the first bucket that held one.
onlyRoutesHaveID(server, id) ==
    /\ Len(server.Routes) > 0
    /\ \A i \in DOMAIN server.Routes : server.Routes[i].ID = id

C5_DeleteRemovesEverywhere ==
    [][(last'.op = "DeleteProxy" /\ last'.err = "") =>
          /\ serversWithRoute(live', last'.id) = {}
          /\ \A s \in live.Servers :
                onlyRoutesHaveID(s[2], last'.id) => ~MapHas(live'.Servers, s[1])]_vars

\* a call that left the tree, both files and the overlay store alone and
\* sent no replace request
NothingMutated ==
    /\ last'.posts = 0
    /\ live' = live
    /\ configFile' = configFile
    /\ metadata' = metadata
    /\ metadataFile' = metadataFile

\* an entry that net.ParseIP and net.ParseCIDR both refuse as it stands
hasRefusedEntry(ips) == \E i \in DOMAIN ips : ~validateIPOrCIDR(ips[i])

\* an entry that is not blank and is refused once the white space is trimmed
hasInvalidEntry(ips) ==
    \E i \in DOMAIN ips : ~IsEmptyString(TrimSpace(ips[i])) /\ ~validateIPOrCIDR(TrimSpace(ips[i]))

\* C6 as stated: an AddProxy with an allow- or block-list entry that is
\* neither a valid address nor a valid CIDR range fails and mutates nothing.
\* Blank entries and entries with white space around them are such entries,
\* and the code skips the former and trims the latter.
C6_RefusedEntryRejected ==
    [][(last'.op = "AddProxy"
        /\ (hasRefusedEntry(last'.proxy.AllowedIPs) \/ hasRefusedEntry(last'.proxy.BlockedIPs)))
       => (last'.err # "" /\ NothingMutated)]_vars

\* C6 amended: an AddProxy with an allow- or block-list entry that is not
\* blank and, with the surrounding white space trimmed, is neither a valid
\* address nor a valid CIDR range fails with a validation error and mutates
\* nothing: no replace request, tree, snapshot file, overlay store and
\* metadata file unchanged.
C6_InvalidEntryRejected ==
    [][(last'.op = "AddProxy"
        /\ (hasInvalidEntry(last'.proxy.AllowedIPs) \/ hasInvalidEntry(last'.proxy.BlockedIPs)))
       => (last'.err \in {"invalid allowed IPs", "invalid blocked IPs"} /\ NothingMutated)]_vars

\* an AddProxy with an invalid second entry was refused on a tree holding routes
C6_Witness ==
    /\ last.op = "AddProxy"
    /\ hasInvalidEntry(last.proxy.AllowedIPs)
    /\ validateIPOrCIDR(last.proxy.AllowedIPs[1])
    /\ last.err = "invalid allowed IPs"
    /\ routeCount(live) > 0
    /\ metadata # {}

\* C7: an UpdateProxy(p) that fails with a validation error leaves every
\* route stored under p's identifier in its bucket and sends no replace
\* request.  The code deletes the route before it validates p.
validationErrors == {"invalid allowed IPs", "invalid blocked IPs", "failed to build proxy route"}

C7_UpdateValidatesFirst ==
    [][(last'.op = "UpdateProxy" /\ last'.err \in validationErrors) =>
          /\ last'.posts = 0
          /\ \A s \in live.Servers : \A i \in DOMAIN s[2].Routes :
                s[2].Routes[i].ID = last'.id =>
                    /\ MapHas(live'.Servers, s[1])
                    /\ s[2].Routes[i] \in Range(MapGet(live'.Servers, s[1]).Routes)]_vars

\* C8: an AddProxy whose fetch of the tree fails returns an error, pushes no
\* tree and leaves the live tree as it was.  The code goes on with an empty
\* tree and pushes it.
C8_FetchFailureSurfaced ==
    [][(last'.op = "AddProxy" /\ ~last'.io[1].get
        /\ validateIPList(last'.proxy.AllowedIPs) /\ validateIPList(last'.proxy.BlockedIPs)
        /\ ~parseTargetURL(last'.proxy.TargetURL).err)
       => (last'.err # "" /\ last'.posts = 0 /\ live' = live)]_vars

\* C9: after a successful AddProxy(p) with TLS mode "none" the bucket holding
\* p's route has automatic HTTPS disabled and does not listen on ":443".  A
\* domain with port 443 puts ":443" into the list.
C9_HTTPOnlyBucket ==
    (AddSucceeded /\ last.proxy.SSLMode = "none") =>
        \A s \in live.Servers :
            hasRoute(s[2], last.id) /\ s[1] = "http_only" =>
                /\ s[2].AutomaticHTTPS.present
                /\ s[2].AutomaticHTTPS.Disable
                /\ ~SliceContains(s[2].Listen, Port443)

\* C10: the route AddProxy wrote for p (the last route of p's bucket) has an
\* authentication handler exactly when basic auth is enabled with a username
\* and a password; an authentication handler is the first handler and comes
\* before the reverse-proxy handler; and every route of the tree has exactly
\* one reverse-proxy handler.
handlerIndexes(route, name) == {i \in DOMAIN route.Handle : route.Handle[i].Handler = name}

authenticationWanted(proxy) ==
    /\ proxy.BasicAuth.present
    /\ proxy.BasicAuth.Enabled
    /\ proxy.BasicAuth.Username # ""
    /\ proxy.BasicAuth.Password # ""

\* the places in a bucket of the routes built for proxies
proxyRouteIndexes(server) ==
    {i \in DOMAIN server.Routes : HasPrefix(server.Routes[i].ID, <<"proxy", "_">>)}

lastRouteOf(config, serverName) ==
    LET routes == MapGet(config.Servers, serverName).Routes IN routes[Len(routes)]

C10_AuthenticationHandler ==
    /\ AddSucceeded =>
          LET route == lastRouteOf(live, proxyServerName(last.proxy))
          IN  /\ route.ID = last.id
              /\ (handlerIndexes(route, "authentication") # {}) <=> authenticationWanted(last.proxy)
    /\ \A s \in live.Servers : \A i \in proxyRouteIndexes(s[2]) :
          LET route == s[2].Routes[i]
          IN  /\ Cardinality(handlerIndexes(route, "reverse_proxy")) = 1
              /\ handlerIndexes(route, "authentication") \in {{}, {1}}
              /\ \A a \in handlerIndexes(route, "authentication") :
                    \A r \in handlerIndexes(route, "reverse_proxy") : a < r

\* a proxy with basic auth enabled, a username and a password was added and
\* its route starts with the authentication handler
C10_Witness ==
    /\ AddSucceeded
    /\ authenticationWanted(last.proxy)
    /\ lastRouteOf(live, proxyServerName(last.proxy)).Handle[1].Handler = "authentication"
    /\ Len(lastRouteOf(live, proxyServerName(last.proxy)).Handle) = 2

\* the redirects the reconciler makes of a tree under identifier id
parsedRedirectsWithID(config, id) ==
    {q \in Range(ParseRedirectsFromConfig(config)) : q.ID = id}

\* the routes of a tree stored under identifier id
routesWithID(config, id) ==
    UNION {{s[2].Routes[i] : i \in {j \in DOMAIN s[2].Routes : s[2].Routes[j].ID = id}} :
              s \in config.Servers}

AddRedirectSucceeded == last.op = "AddRedirect" /\ last.err = ""

\* C11: after a successful AddRedirect(r) the Location header of r's route
\* is r's destination followed by the URI placeholder when r preserves the
\* path and r's destination alone otherwise, and the reconciler yields a
\* redirect with r's identifier, r's destination and r's preserve-path flag.
\* A destination that itself ends with the placeholder comes back cut, with
\* the flag set.
C11_RedirectRoundTrip ==
    AddRedirectSucceeded =>
        /\ \E route \in routesWithID(live, last.id) :
              locationOf(route.Handle) =
                  IF last.redirect.PreservePath
                  THEN last.redirect.DestinationURL \o <<"{http.request.uri}">>
                  ELSE last.redirect.DestinationURL
        /\ \E q \in parsedRedirectsWithID(live, last.id) :
              /\ q.DestinationURL = last.redirect.DestinationURL
              /\ q.PreservePath = last.redirect.PreservePath

\* C12: an AddRedirect or UpdateRedirect with a code other than 301 and 302
\* returns an error and leaves the live tree as it was.  UpdateRedirect
\* deletes the route before AddRedirect validates.
C12_BadCodeRejected ==
    [][(last'.op \in {"AddRedirect", "UpdateRedirect"}
        /\ last'.redirect.RedirectCode \notin {301, 302})
       => (last'.err # "" /\ live' = live)]_vars

dnsChallengeProxy(proxy) == proxy.SSLMode = "auto" /\ proxy.ChallengeType = "dns"

\* the policies of a bucket, none when the tree has no such bucket
policiesOf(config, serverName) ==
    IF MapHas(config.Servers, serverName) THEN MapGet(config.Servers, serverName).TLSPolicies
    ELSE <<>>

explicitCredential(proxy, key) ==
    IF MapHas(proxy.DNSCredentials, key) THEN MapGet(proxy.DNSCredentials, key) ELSE ""

\* C13: a successful AddProxy of a DNS-challenge proxy with provider
\* cloudflare appends exactly one TLS policy to the proxy's bucket; its SNI
\* match is the proxy's domain, its issuer is "acme" with the provider
\* "dns.providers.cloudflare", and its token is the explicit api_token when
\* that is not empty, whatever the environment holds, and the value of
\* CLOUDFLARE_API_TOKEN only otherwise.
C13_CloudflarePolicy ==
    [][(AddSucceeded' /\ dnsChallengeProxy(last'.proxy) /\ last'.proxy.DNSProvider = "cloudflare")
       => LET before == policiesOf(live, "https_enabled")
              after  == policiesOf(live', "https_enabled")
              policy == after[Len(after)]
              t      == explicitCredential(last'.proxy, "api_token")
          IN  /\ Len(after) = Len(before) + 1
              /\ SubSeq(after, 1, Len(before)) = before
              /\ policy.SNI = <<last'.proxy.Domain>>
              /\ Len(policy.Issuers) = 1
              /\ policy.Issuers[1].Module = "acme"
              /\ policy.Issuers[1].Provider.Name = <<"dns.providers.", "cloudflare">>
              /\ policy.Issuers[1].Provider.APIToken =
                     IF t # "" THEN t
                     ELSE IF MapHas(env, "CLOUDFLARE_API_TOKEN")
                          THEN MapGet(env, "CLOUDFLARE_API_TOKEN") ELSE ""]_vars

\* the environment holds a token and the policy carries the explicit one
C13_Witness ==
    /\ AddSucceeded
    /\ dnsChallengeProxy(last.proxy)
    /\ last.proxy.DNSProvider = "cloudflare"
    /\ explicitCredential(last.proxy, "api_token") = "tok123"
    /\ MapHas(env, "CLOUDFLARE_API_TOKEN")
    /\ Len(policiesOf(live, "https_enabled")) > 0
    /\ LET policies == policiesOf(live, "https_enabled")
       IN  policies[Len(policies)].Issuers[1].Provider.APIToken = "tok123"

supportedProviders == {"cloudflare", "digitalocean", "duckdns", "hetzner", "gandi", "dnsimple"}

\* C14: an AddProxy of a DNS-challenge proxy whose provider is not a
\* supported one fails and leaves the tree as it was.  The client has no
\* such check: it writes a policy that names the provider and succeeds.
C14_UnsupportedProviderRejected ==
    [][(last'.op = "AddProxy" /\ dnsChallengeProxy(last'.proxy)
        /\ last'.proxy.DNSProvider # ""
        /\ last'.proxy.DNSProvider \notin supportedProviders)
       => (last'.err # "" /\ last'.posts = 0 /\ live' = live)]_vars

\* C15: the overlay store and the metadata file change only with a
\* successful call: an AddProxy or DeleteProxy that returns an error leaves
\* both as they were.  AddProxy writes the entry before it pushes the tree
\* and DeleteProxy removes it before it fetches the tree.
C15_OverlayOnlyOnSuccess ==
    [][(last'.op \in {"AddProxy", "DeleteProxy"} /\ last'.err # "")
       => (metadata' = metadata /\ metadataFile' = metadataFile)]_vars

\* a delete call whose fetch worked, for an identifier that no bucket holds
AbsentDelete ==
    /\ last'.op \in {"DeleteProxy", "DeleteRedirect"}
    /\ last'.io[1].get
    /\ serversWithRoute(live, last'.id) = {}

notFoundError(op) == IF op = "DeleteProxy" THEN "route not found" ELSE "redirect not found"

TreeAndSnapshotUnchanged == last'.posts = 0 /\ live' = live /\ configFile' = configFile

\* C16: DeleteProxy and DeleteRedirect for an identifier that is in no
\* bucket return a not-found error, send no replace request and leave the
\* live tree and the snapshot file as they were.  On a tree that has no
\* servers map yet both return "failed to get current config" instead.
C16_AbsentIsNotFound ==
    [][AbsentDelete => (last'.err = notFoundError(last'.op) /\ TreeAndSnapshotUnchanged)]_vars

\* the places <<bucket, index>> of the routes stored under identifier id
routePlaces(config, id) ==
    UNION {{<<s[1], i>> : i \in {j \in DOMAIN s[2].Routes : s[2].Routes[j].ID = id}} :
              s \in config.Servers}

\* every route of config with another identifier than id is in the same
\* bucket of config2
otherRoutesKept(config, config2, id) ==
    \A s \in config.Servers : \A i \in DOMAIN s[2].Routes :
        s[2].Routes[i].ID # id =>
            /\ MapHas(config2.Servers, s[1])
            /\ s[2].Routes[i] \in Range(MapGet(config2.Servers, s[1]).Routes)

\* C17: a successful UpdateProxy(p) on a tree with exactly one route under
\* p's identifier leaves exactly one such route, the one built from p, in
\* the bucket of p's TLS mode, with p's overlay entry, and every other
\* route where it was; an UpdateProxy for an identifier that is in no
\* bucket returns an error and adds no route.  An update whose add half
\* cannot fetch the tree pushes a tree without the other routes.
C17_UpdateReplacesRoute ==
    [][last'.op = "UpdateProxy" =>
          /\ (last'.err = "" /\ Cardinality(routePlaces(live, last'.id)) = 1) =>
                /\ Cardinality(routePlaces(live', last'.id)) = 1
                /\ \A place \in routePlaces(live', last'.id) :
                      /\ place[1] = proxyServerName(last'.proxy)
                      /\ MapGet(live'.Servers, place[1]).Routes[place[2]]
                             = buildProxyRoute(last'.proxy).route
                /\ MetadataHas(metadata', last'.id)
                /\ MetadataGet(metadata', last'.id) = ProxyMetadata(last'.proxy)
                /\ otherRoutesKept(live, live', last'.id)
                /\ otherRoutesKept(live', live, last'.id)
          /\ routePlaces(live, last'.id) = {} =>
                /\ last'.err # ""
                /\ routeCount(live') = routeCount(live)]_vars

mutations ==
    {"AddProxy", "DeleteProxy", "UpdateProxy", "AddRedirect", "DeleteRedirect", "UpdateRedirect"}

\* the outcome of the last request sequence of a call
lastIO == last'.io[Len(last'.io)]

\* C20: after a mutation that returns success and whose snapshot write did
\* not fail the snapshot file holds the tree the live server has; and a
\* replace request that fails leaves the snapshot file as it was before
\* that request (for the second request of an update: as the first one
\* left it).
C20_SnapshotFollowsTree ==
    [][last'.op \in mutations =>
          /\ (last'.err = "" /\ lastIO.cfgWrite) => configFile' = File(live')
          /\ (Len(last'.io) = 1 /\ last'.err = "failed to update config") =>
                configFile' = configFile
          /\ (Len(last'.io) = 2 /\ last'.err = "failed to update config") =>
                configFile' = IF last'.posts = 1 \/ ~last'.io[1].cfgWrite THEN configFile
                              ELSE File(live')]_vars

\* a mutation succeeded after an earlier snapshot write had failed, and the
\* snapshot file holds the live tree again
C20_Witness ==
    /\ last.op \in mutations
    /\ last.err = ""
    /\ faults > 0
    /\ routeCount(live) > 0
    /\ configFile = File(live)

\* C19: the overlay store is behind one mutex, so no request is writing
\* the entry map (inside metadata.Set) while another request is inside the
\* map, writing it or marshalling it.  MetadataStore has no lock.
C19_StoreAccessExclusive ==
    \A c \in Callers : \A d \in Callers \ {c} :
        ~(calls[c].pc = "setting" /\ calls[d].pc \in {"setting", "marshalling"})

\* both requests have returned, and both had fetched the tree before
\* either one pushed
BothFetchedBeforePush ==
    ~crashed /\ \A c \in Callers : calls[c].pc = "done" /\ calls[c].fetchedAt = 0

\* C18: when two AddProxy calls for distinct proxies both fetch the tree
\* before either pushes, both return success, the live tree holds only
\* the route of the call that pushed last, and the overlay store holds an
\* entry for both proxies.  The store part fails when the two calls are
\* inside the unlocked store at the same time.
C18_LostUpdate ==
    BothFetchedBeforePush =>
        /\ \A c \in Callers : calls[c].err = ""
        /\ routeCount(live) = 1
        /\ routePlaces(live, calls[pushes[Len(pushes)]].proxy.ID) # {}
        /\ \A c \in Callers : MetadataHas(metadata, calls[c].proxy.ID)

\* an AddProxy or DeleteProxy call that got as far as its replace request,
\* which the server accepted
ReplaceAccepted ==
    /\ last'.io[1].post
    /\ \/ last'.op = "AddProxy" /\ last'.err \notin validationErrors
       \/ /\ last'.op = "DeleteProxy"
          /\ last'.io[1].get
          /\ routePlaces(live, last'.id) # {}

\* C21: when the server accepts the replace request of AddProxy or
\* DeleteProxy the call returns success and the live tree has the change,
\* also when the snapshot file or the metadata file cannot be written; the
\* file that could not be written is as it was, and the call sent no
\* second request.
C21_FileWriteNotFatal ==
    [][ReplaceAccepted =>
          /\ last'.err = ""
          /\ last'.posts = 1
          /\ (last'.op = "AddProxy") => routePlaces(live', last'.id) # {}
          /\ (last'.op = "DeleteProxy") =>
                Cardinality(routePlaces(live', last'.id))
                    < Cardinality(routePlaces(live, last'.id))
          /\ ~last'.io[1].cfgWrite => configFile' = configFile
          /\ ~last'.io[1].metaWrite => metadataFile' = metadataFile]_vars

\* an AddProxy succeeded although neither file could be written: the tree
\* has the route and both files are still missing
C21_Witness ==
    /\ AddSucceeded
    /\ ~last.io[1].cfgWrite
    /\ ~last.io[1].metaWrite
    /\ routePlaces(live, last.id) # {}
    /\ configFile = NoFile
    /\ metadataFile = NoFile

\* the startup has a snapshot to restore
Restorable == last'.id # <<>> /\ configFile.exists

\* C22: RestoreConfigFromFile never rewrites the snapshot file.  With a
\* snapshot file it sends one replace request with the snapshot's tree,
\* after which the live tree is the snapshot; it returns an error and
\* leaves the live tree when the file cannot be loaded (nothing sent) or
\* the push is refused.  Without a snapshot file, or without a path, it
\* sends nothing and returns success.
C22_StartupRestore ==
    [][last'.op = "RestoreConfigFromFile" =>
          /\ configFile' = configFile
          /\ ~Restorable => (last'.err = "" /\ last'.posts = 0 /\ live' = live)
          /\ (Restorable /\ last'.io[1].cfgRead /\ last'.io[1].post) =>
                (last'.err = "" /\ last'.posts = 1 /\ configFile = File(live'))
          /\ (Restorable /\ ~last'.io[1].cfgRead) =>
                (last'.err # "" /\ last'.posts = 0 /\ live' = live)
          /\ (Restorable /\ last'.io[1].cfgRead /\ ~last'.io[1].post) =>
                (last'.err # "" /\ last'.posts = 1 /\ live' = live)]_vars

\* a startup restored a snapshot with routes
C22_Witness ==
    /\ last.op = "RestoreConfigFromFile"
    /\ last.err = ""
    /\ last.posts = 1
    /\ routeCount(live) > 0
    /\ configFile = File(live)

\* the proxies ParseProxiesFromConfig makes of routes without an overlay entry
parsedWithoutEntry(config, ms) ==
    {q \in Range(ParseProxiesFromConfig(config, ms)) : ~MetadataHas(ms, q.ID)}

\* C23: a list request changes neither the overlay store nor its file, and
\* the proxy it makes of a route whose identifier has no overlay entry has
\* the reconciler's defaults in every field the parser does not take from
\* the tree: status active, the default timestamps, empty overlay fields.
C23_NoEntryKeepsDefaults ==
    [][last'.op = "GetProxies" =>
          /\ metadata' = metadata
          /\ metadataFile' = metadataFile
          /\ \A q \in parsedWithoutEntry(live, metadata') :
                q = [parsedProxyDefaults(q.ID) EXCEPT !.Domain = q.Domain,
                                                      !.TargetURL = q.TargetURL,
                                                      !.SSLMode = q.SSLMode]]_vars

\* proxies were listed while the tree held a route without an overlay entry
C23_Witness ==
    /\ last.op = "GetProxies"
    /\ last.err = ""
    /\ parsedWithoutEntry(live, metadata) # {}
    /\ metadata # NewMetadataStore

\* C24: every bucket of the live tree holds at least one route, whatever
\* calls of the six mutations were made on the empty server.
C24_NoEmptyBucket ==
    \A s \in live.Servers : Len(s[2].Routes) >= 1

\* a DeleteRedirect took the last route out of "https_enabled" and the
\* bucket is gone, while "http_only" is still there
C24_Witness ==
    /\ last.op = "DeleteRedirect"
    /\ last.err = ""
    /\ ~MapHas(live.Servers, "https_enabled")
    /\ MapHas(live.Servers, "http_only")

routesOfBucket(config, serverName) ==
    IF MapHas(config.Servers, serverName) THEN MapGet(config.Servers, serverName).Routes
    ELSE <<>>

\* the bucket the claim gives to the route of the last add
claimedBucket ==
    IF last'.op = "AddProxy" /\ last'.proxy.SSLMode = "none" THEN "http_only"
    ELSE "https_enabled"

acmeSlot(config) ==
    IF MapHas(config.TLS.CertificateAuthorities, "acme")
    THEN <<MapGet(config.TLS.CertificateAuthorities, "acme")>>
    ELSE <<>>

\* the proxy fills the slot: TLS mode auto, challenge dns, a provider
fillsSlot(proxy) == dnsChallengeProxy(proxy) /\ proxy.DNSProvider # ""

claimedMatchers(proxy) ==
    LET host    == IF Contains(proxy.Domain, ":") THEN <<>> ELSE <<proxy.Domain>>
        allowed == NonBlank(proxy.AllowedIPs)
        blocked == NonBlank(proxy.BlockedIPs)
    IN  IF allowed # <<>> THEN {<<CaddyMatch(host, RemoteIPMatch(allowed), NoRemoteIP)>>}
        ELSE IF blocked # <<>> THEN {<<CaddyMatch(host, NoRemoteIP, RemoteIPMatch(blocked))>>}
        ELSE IF host # <<>> THEN {<<CaddyMatch(host, NoRemoteIP, NoRemoteIP)>>}
        ELSE {<<>>, <<CaddyMatch(host, NoRemoteIP, NoRemoteIP)>>}

\* C27: the route of an added proxy has one positive remote-IP matcher over
\* the allow-list when the allow-list has an entry that is not blank;
\* otherwise one negated remote-IP matcher over the block-list when that
\* has such an entry; otherwise no remote-IP condition; and the host
\* condition exactly when the domain has no port.  The code leaves the
\* block-list out whenever the allow-list has any entry, blank or not.
C27_MatcherSelection ==
    AddSucceeded =>
        lastRouteOf(live, proxyServerName(last.proxy)).Match \in claimedMatchers(last.proxy)

\* C28: a successful AddProxy of a proxy that does not have both TLS mode
\* auto and challenge type dns writes a tree whose global TLS state and
\* whose TLS-policy lists, bucket by bucket, are those of the tree it
\* fetched.
C28_ChallengeOnlyAutoDNS ==
    [][(AddSucceeded' /\ ~dnsChallengeProxy(last'.proxy)) =>
          /\ live'.TLS = live.TLS
          /\ \A name \in MapKeys(live'.Servers) :
                policiesOf(live', name) = policiesOf(live, name)]_vars

\* a proxy with TLS mode custom and challenge type dns was added to a tree
\* with a filled slot and a policy, and its provider is in neither
C28_Witness ==
    /\ AddSucceeded
    /\ last.proxy.SSLMode = "custom"
    /\ last.proxy.ChallengeType = "dns"
    /\ last.proxy.DNSProvider = "cloudflare"
    /\ Len(acmeSlot(live)) = 1
    /\ acmeSlot(live)[1].Provider.Name = <<"dns.providers.", "digitalocean">>
    /\ Len(policiesOf(live, "https_enabled")) = 1

\* C29: after a successful AddProxy(p) with an allow-list or a block-list
\* the reconciler returns a proxy with p's identifier, and every proxy it
\* returns with that identifier has p's allow-list and p's block-list.
\* The overlay entry has no field for either list.
C29_IPListsRestored ==
    (AddSucceeded /\ (last.proxy.AllowedIPs # <<>> \/ last.proxy.BlockedIPs # <<>>)) =>
        /\ parsedWithID(live, metadata, last.id) # {}
        /\ \A q \in parsedWithID(live, metadata, last.id) :
              /\ q.AllowedIPs = last.proxy.AllowedIPs
              /\ q.BlockedIPs = last.proxy.BlockedIPs

\* the places of a tree whose route has an identifier and a reverse-proxy
\* handler somewhere in its chain
qualifyingPlaces(config) ==
    UNION {{<<s[1], i>> : i \in {j \in DOMAIN s[2].Routes :
                                    /\ s[2].Routes[j].ID # <<>>
                                    /\ handlerIndexes(s[2].Routes[j], "reverse_proxy") # {}}} :
              s \in config.Servers}

placesOf(config) ==
    UNION {{<<s[1], i>> : i \in DOMAIN s[2].Routes} : s \in config.Servers}

\* the places of a tree whose route has a redirect's identifier, a
\* static response with status 301 or 302 and a Location header
redirectPlaces(config) ==
    UNION {{<<s[1], i>> : i \in {j \in DOMAIN s[2].Routes :
              /\ HasPrefix(s[2].Routes[j].ID, <<"redirect", "_">>)
              /\ \E h \in handlerIndexes(s[2].Routes[j], "static_response") :
                    s[2].Routes[j].Handle[h].StatusCode \in 301..302
              /\ \E h \in handlerIndexes(s[2].Routes[j], "headers") :
                    MapHas(s[2].Routes[j].Handle[h].ResponseSet, "Location")}} :
              s \in config.Servers}

routeAt(config, place) == MapGet(config.Servers, place[1]).Routes[place[2]]

\* C30: ParseProxiesFromConfig returns as many proxies as the tree has
\* routes with an identifier and a reverse-proxy handler, identifier by
\* identifier; and ParseRedirectsFromConfig returns no identifier that
\* only routes without a redirect response carry, so never a route that
\* AddProxy built.
C30_ParserQualification ==
    LET proxies   == ParseProxiesFromConfig(live, metadata)
        redirects == ParseRedirectsFromConfig(live)
    IN  /\ Len(proxies) = Cardinality(qualifyingPlaces(live))
        /\ \A place \in qualifyingPlaces(live) :
              Cardinality({i \in DOMAIN proxies : proxies[i].ID = routeAt(live, place).ID})
                  = Cardinality({other \in qualifyingPlaces(live) :
                                    routeAt(live, other).ID = routeAt(live, place).ID})
        /\ Len(redirects) = Cardinality(redirectPlaces(live))
        /\ \A place \in placesOf(live) :
              routeAt(live, place).ID \in {redirects[i].ID : i \in DOMAIN redirects}
                  => \E other \in redirectPlaces(live) :
                        routeAt(live, other).ID = routeAt(live, place).ID
        /\ \A place \in placesOf(live) \ qualifyingPlaces(live) :
              routeAt(live, place).ID \in {proxies[i].ID : i \in DOMAIN proxies}
                  => \E other \in qualifyingPlaces(live) :
                        routeAt(live, other).ID = routeAt(live, place).ID

\* proxies were listed on a tree that holds a proxy route behind an
\* authentication handler, a redirect route and a route without identifier
C30_Witness ==
    /\ last.op = "GetProxies"
    /\ last.err = ""
    /\ Cardinality(qualifyingPlaces(live)) = 1
    /\ \E place \in qualifyingPlaces(live) :
          routeAt(live, place).Handle[1].Handler = "authentication"
    /\ routeCount(live) = 3
    /\ Len(ParseRedirectsFromConfig(live)) = 1
    /\ \E s \in live.Servers : \E j \in DOMAIN s[2].Routes : s[2].Routes[j].ID = <<>>

noPortTwice(listen) == \A i, j \in DOMAIN listen : listen[i] = listen[j] => i = j

\* C31: in the tree a successful AddProxy or AddRedirect wrote, no bucket
\* lists a listen port twice, and every port a bucket listed before the
\* call is still listed.
C31_ListenPortsAreASet ==
    [][(last'.op \in {"AddProxy", "AddRedirect"} /\ last'.err = "")
          => /\ \A s \in live'.Servers : noPortTwice(s[2].Listen)
             /\ \A s \in live.Servers :
                   /\ MapHas(live'.Servers, s[1])
                   /\ Range(s[2].Listen) \subseteq Range(MapGet(live'.Servers, s[1]).Listen)]_vars

\* the identifiers of the routes of a tree that hold a reverse proxy
proxyRouteIDs(config) ==
    {routeAt(config, place).ID :
        place \in {q \in placesOf(config) :
                      handlerIndexes(routeAt(config, q), "reverse_proxy") # {}}}

overlayKeys(ms) == {m.ID : m \in ms}

\* C32: with one call at a time and no failing request or file write, the
\* overlay store holds an entry for exactly the identifiers of the proxy
\* routes of the live tree.
C32_TreeOverlayConsistent == overlayKeys(metadata) = proxyRouteIDs(live)

uniqueRouteIDs(config) ==
    \A p, q \in placesOf(config) : routeAt(config, p).ID = routeAt(config, q).ID => p = q

\* the step of C32 from a tree without a repeated identifier
stepFromUniqueIDs ==
    [][(uniqueRouteIDs(live) /\ overlayKeys(metadata) = proxyRouteIDs(live))
          => overlayKeys(metadata') = proxyRouteIDs(live')]_vars

\* C34: no two routes of the live tree carry the same identifier.
C34_RouteIDsUnique == uniqueRouteIDs(live)

\* C33: a successful DeleteProxy changes nothing but route lists: every
\* bucket that is still there keeps its listen list, TLS policies and
\* automatic-HTTPS setting, every bucket without the identifier is left
\* as it was, and the global TLS state is as fetched.
C33_DeleteRemovesRoutesOnly ==
    [][(last'.op = "DeleteProxy" /\ last'.err = "")
          => /\ live'.TLS = live.TLS
             /\ \A s \in live.Servers :
                   /\ MapHas(live'.Servers, s[1])
                         => LET after == MapGet(live'.Servers, s[1])
                            IN  /\ after.Listen = s[2].Listen
                                /\ after.TLSPolicies = s[2].TLSPolicies
                                /\ after.AutomaticHTTPS = s[2].AutomaticHTTPS
                   /\ ~hasRoute(s[2], last'.id) => s \in live'.Servers]_vars

\* a DNS-challenge proxy and a proxy with a port in its domain were
\* deleted from https_enabled, which keeps another route, the policy of
\* the one and the listen port of the other
C33_Witness ==
    /\ last.op = "DeleteProxy"
    /\ last.err = ""
    /\ MapHas(live.Servers, "https_enabled")
    /\ LET server == MapGet(live.Servers, "https_enabled")
       IN  /\ Len(server.Routes) = 1
           /\ ~hasRoute(server, last.id)
           /\ \E i \in DOMAIN server.TLSPolicies : server.TLSPolicies[i].SNI = <<DomPlain>>
           /\ <<":", "9801">> \in Range(server.Listen)
           /\ ~Contains(server.Routes[1].ID, "9801")

\* the buckets of a tree that hold a route with identifier id and a
\* handler of the given kind
serversWithKind(config, id, kind) ==
    {place[1] : place \in {q \in routePlaces(config, id) :
                              handlerIndexes(routeAt(config, q), kind) # {}}}

\* C35: when the server answers both requests, DeleteRedirect with the
\* identifier of a proxy route succeeds, takes the routes with that
\* identifier out of a bucket and leaves the overlay store as it was; and
\* DeleteProxy with the identifier of a redirect route succeeds and takes
\* the redirect route out of its bucket.
C35_DeletionByIdentifierAlone ==
    [][/\ (/\ last'.op = "DeleteRedirect"
           /\ lastIO.get /\ lastIO.post
           /\ serversWithKind(live, last'.id, "reverse_proxy") # {})
          => /\ last'.err = ""
             /\ serversWithRoute(live', last'.id) # serversWithRoute(live, last'.id)
             /\ serversWithRoute(live', last'.id) \subseteq serversWithRoute(live, last'.id)
             /\ metadata' = metadata
       /\ (/\ last'.op = "DeleteProxy"
           /\ lastIO.get /\ lastIO.post
           /\ serversWithKind(live, last'.id, "static_response") # {})
          => /\ last'.err = ""
             /\ serversWithRoute(live', last'.id) # serversWithRoute(live, last'.id)
             /\ serversWithRoute(live', last'.id) \subseteq serversWithRoute(live, last'.id)]_vars

\* DeleteRedirect took a proxy's route out of the tree and its overlay
\* entry is still in the store
C35_Witness ==
    /\ last.op = "DeleteRedirect"
    /\ last.err = ""
    /\ HasPrefix(last.id, <<"proxy", "_">>)
    /\ routePlaces(live, last.id) = {}
    /\ MetadataHas(metadata, last.id)

\* C36: once StopHealthCheck(id) has returned, and until the next call of
\* the service, there is no status for id, whatever checks complete.
C36_StopRemovesStatus ==
    health.ret.op = "StopHealthCheck" => ~MapHas(health.statuses, health.ret.id)

\* only StartHealthCheck creates a status entry
checksCreateNoStatus ==
    [][MapKeys(health'.statuses) \subseteq MapKeys(health.statuses)
          \/ health'.ret.op = "StartHealthCheck"]_vars

\* the loops of proxy id whose context is not cancelled
runningLoops(id) ==
    {l \in DOMAIN health.loops : health.loops[l].proxy.ID = id /\ ~health.loops[l].cancelled}

\* at most one loop is registered for an identifier, it is the only one
\* whose context is not cancelled, and its identifier has a status
oneLoopRegistered ==
    \A id \in HealthIDs :
        /\ Cardinality(runningLoops(id)) <= 1
        /\ runningLoops(id) = {e[2] : e \in {c \in health.cancels : c[1] = id}}
        /\ MapHas(health.cancels, id) => MapHas(health.statuses, id)

\* C37: at most one health-check loop is registered for an identifier, and
\* while a loop is registered for an identifier every status a check
\* writes for it is written by a check of that loop.
C37_OnlyRegisteredLoopWrites ==
    [][/\ oneLoopRegistered'
       /\ \A id \in HealthIDs :
             (/\ MapHas(health.cancels, id)
              /\ MapHas(health'.statuses, id)
              /\ MapHas(health.statuses, id)
              /\ MapGet(health'.statuses, id) # MapGet(health.statuses, id)
              /\ MapGet(health'.statuses, id).Loop # 0)
                => MapGet(health'.statuses, id).Loop = MapGet(health.cancels, id)]_vars

\* C38: a Setup request that arrives when a user exists is answered
\* "System already setup", and the storage never holds more than one user.
C38_SetupAtMostOnce ==
    [][~authDisabled
          => /\ Cardinality(storage'.users) <= 1
             /\ \A c \in Callers :
                   (/\ IsSetup(storage)
                    /\ storage.reqs[c].pc = "idle"
                    /\ storage'.ret # storage.ret
                    /\ storage'.ret.op = "Setup"
                    /\ storage'.ret.caller = c)
                      => storage'.ret.message = "System already setup"]_vars

====
